---- MODULE Spec2Model ----
(***************************************************************************)
(* Model of the sandboxed, cached filesystem access engine of              *)
(* mcp-filesystem-remote: path validation (security module and server      *)
(* entry point), FileCache on top of lru-cache, applyFileEdits and         *)
(* searchFiles, tailFile and headFile, the tool handlers, the error        *)
(* classes, the concurrent request limiter and ConfigWatcher.  Each        *)
(* component has its own specification over the shared variables:          *)
(* SpecPath, SpecCache, SpecReadThrough, SpecStatFailure, SpecEdit,        *)
(* SpecSearch, SpecSearchFair, SpecLines, SpecTools, SpecErr, SpecLim,     *)
(* SpecWatcher.                                                            *)
(***************************************************************************)
EXTENDS Integers, Sequences, FiniteSets, TLC

VARIABLES
    fs,                 \* path validation: the file system, node path -> entry
    allowedDirectories, \* path validation: the allowed roots (set at startup)
    call,               \* path validation: the validatePath call just completed
    fc,                 \* FileCache: the object's fields
    files,              \* FileCache: the cached files as fs.stat sees them
    now,                \* FileCache: the clock lru-cache reads (performance.now)
    last,               \* FileCache: the call that completed last
    prev,               \* FileCache: the call that completed before it
    ops,                \* FileCache: calls and file events so far
    hist,               \* FileCache: when each path was inserted, order of use
    reads,              \* FileCache: what a caller read and has not yet cached
    doc,                \* patch engine: the content of the edited file on disk
    editCall,           \* patch engine: the applyFileEdits call just completed
    srch,               \* search: the searchFiles call in progress
    disk,               \* head/tail: the bytes of the file read
    linesCall,          \* head/tail: the tailFile or headFile call just completed
    tool,               \* tool handlers: the tool call just completed
    err,                \* errors: the error thrown and the responses made of it
    lim,                \* concurrent limiter: the counters and the requests
    cw                  \* config watcher: the watcher, its timers and reloads

pathVars == <<fs, allowedDirectories, call>>
cacheVars == <<fc, files, now, last, prev, ops, hist, reads>>
editVars == <<doc, editCall>>
searchVars == <<srch>>
linesVars == <<disk, linesCall>>
toolVars == <<tool>>
errVars == <<err>>
limVars == <<lim>>
watcherVars == <<cw>>

vars == <<fs, allowedDirectories, call, fc, files, now, last, prev, ops, hist, reads,
          doc, editCall, srch, disk, linesCall, tool, err, lim, cw>>

(***************************************************************************)
(* Generic helpers on sequences of characters (JavaScript strings).        *)
(***************************************************************************)

\* String.prototype.startsWith
StartsWith(s, prefix) ==
    /\ Len(prefix) <= Len(s)
    /\ SubSeq(s, 1, Len(prefix)) = prefix

(***************************************************************************)
(* PATH VALIDATION                                                         *)
(* A path is a sequence of segment names; a name is a sequence of          *)
(* characters, so that the string form of a path can be compared by        *)
(* prefix exactly as the code does.                                        *)
(***************************************************************************)

NmD   == <<"d">>          \* the allowed directory /d
NmD2  == <<"d", "2">>     \* its sibling /d2, whose name extends "d"
NmE   == <<"e">>          \* an unrelated directory /e
NmX   == <<"x">>          \* a file name
NmL   == <<"l">>          \* a name used for symbolic links
NmN   == <<"n">>          \* a name that never exists
Dot    == <<".">>
DotDot == <<".", ".">>

\* The string form of an absolute, normalized path: "/" for the root,
\* otherwise "/seg" for every segment.
RECURSIVE PathStr(_)
PathStr(p) ==
    IF p = <<>> THEN <<"/">>
    ELSE IF Len(p) = 1 THEN <<"/">> \o p[1]
    ELSE PathStr(SubSeq(p, 1, Len(p) - 1)) \o <<"/">> \o p[Len(p)]

\* The segment-aware containment the specification asks for: equal to the
\* directory, or the directory followed by a separator.
Under(p, dir) ==
    /\ Len(dir) <= Len(p)
    /\ SubSeq(p, 1, Len(dir)) = dir

UnderSome(p, dirs) == \E dir \in dirs : Under(p, dir)

\* path.resolve / path.normalize on a list of segments: "." is dropped,
\* ".." removes the preceding segment (and stays at the root).
RECURSIVE ResolveSegs(_, _)
ResolveSegs(base, segs) ==
    IF segs = <<>> THEN base
    ELSE LET s == Head(segs)
             next == IF s = Dot THEN base
                     ELSE IF s = DotDot
                          THEN (IF base = <<>> THEN <<>>
                                ELSE SubSeq(base, 1, Len(base) - 1))
                          ELSE Append(base, s)
         IN ResolveSegs(next, Tail(segs))

normalizePath(p) == ResolveSegs(<<>>, p)

HomeDir == <<NmE>>         \* os.homedir()
WorkingDirectory == <<NmD>>

\* A requested path: how it starts ("abs" = "/...", "rel" = relative,
\* "home" = "~/...") and its segments.
expandHome(req) ==
    IF req.base = "home"
    THEN [base |-> "abs", segs |-> HomeDir \o req.segs]
    ELSE req

\* path.isAbsolute(expanded) ? path.resolve(expanded)
\*                           : path.resolve(workingDirectory, expanded)
Absolute(req, workingDirectory) ==
    LET expandedPath == expandHome(req)
    IN IF expandedPath.base = "abs"
       THEN ResolveSegs(<<>>, expandedPath.segs)
       ELSE ResolveSegs(workingDirectory, expandedPath.segs)

\* ---- the file system -------------------------------------------------

NoEntry  == [kind |-> "none", target |-> <<>>]
DirEntry == [kind |-> "dir",  target |-> <<>>]
FileEntry == [kind |-> "file", target |-> <<>>]
LinkTo(t) == [kind |-> "link", target |-> t]

Entry(f, p) ==
    IF p = <<>> THEN DirEntry
    ELSE IF p \in DOMAIN f THEN f[p] ELSE NoEntry

MaxLinkDepth == 3   \* symbolic links followed before ELOOP

NotFound == [ok |-> FALSE, path |-> <<>>]

\* fs.realpath: resolves every symbolic link on the way; fails when a
\* component does not exist, is a file used as a directory, or the links loop.
RECURSIVE Walk(_, _, _, _)
Walk(f, cur, rest, fuel) ==
    IF rest = <<>> THEN [ok |-> TRUE, path |-> cur]
    ELSE LET q == Append(cur, Head(rest))
             e == Entry(f, q)
         IN CASE e.kind = "none" -> NotFound
              [] e.kind = "dir"  -> Walk(f, q, Tail(rest), fuel)
              [] e.kind = "file" -> IF Tail(rest) = <<>>
                                    THEN [ok |-> TRUE, path |-> q]
                                    ELSE NotFound
              [] e.kind = "link" ->
                    IF fuel = 0 THEN NotFound
                    ELSE LET t == Walk(f, <<>>, e.target, fuel - 1)
                         IN IF t.ok
                            THEN (IF Tail(rest) = <<>> THEN t
                                  ELSE IF Entry(f, t.path).kind = "dir"
                                       THEN Walk(f, t.path, Tail(rest), fuel - 1)
                                       ELSE NotFound)
                            ELSE NotFound

realpath(f, p) == Walk(f, <<>>, p, MaxLinkDepth)

\* path.dirname of an absolute normalized path
dirname(p) == IF p = <<>> THEN <<>> ELSE SubSeq(p, 1, Len(p) - 1)

\* allowedDirectories.some(dir => normalized.startsWith(dir))
IsAllowed(p, dirs) ==
    \E dir \in dirs : StartsWith(PathStr(normalizePath(p)), PathStr(dir))

Ok(p)        == [status |-> "ok", path |-> p]
Denied       == [status |-> "denied", path |-> <<>>]
FileNotFound == [status |-> "notfound", path |-> <<>>]
Failed       == [status |-> "error", path |-> <<>>]

\* filesystem security module: validatePath
validatePath(f, requestedPath, dirs, workingDirectory) ==
    LET absolute == Absolute(requestedPath, workingDirectory)
        real == realpath(f, absolute)
        parentDir == dirname(absolute)
        realParent == realpath(f, parentDir)
    IN IF ~IsAllowed(absolute, dirs) THEN Denied
       ELSE IF real.ok
            THEN (IF ~IsAllowed(real.path, dirs) THEN Denied ELSE Ok(real.path))
            ELSE IF realParent.ok
                 THEN (IF ~IsAllowed(realParent.path, dirs) THEN Denied
                       ELSE Ok(absolute))
                 ELSE FileNotFound

\* server entry point: validatePath.  The error thrown for a real path
\* outside the allowed directories is thrown inside the try block and so
\* is caught by its own catch, which goes on to the parent directory.
entryValidatePath(f, requestedPath, dirs) ==
    LET absolute == Absolute(requestedPath, WorkingDirectory)
        real == realpath(f, absolute)
        parentDir == dirname(absolute)
        realParent == realpath(f, parentDir)
    IN IF ~IsAllowed(absolute, dirs) THEN Failed
       ELSE IF real.ok /\ IsAllowed(real.path, dirs) THEN Ok(real.path)
            ELSE IF realParent.ok /\ IsAllowed(realParent.path, dirs)
                 THEN Ok(absolute)
                 ELSE Failed

\* ---- state and operations of the path validation component -----------

PD   == <<NmD>>
PD2  == <<NmD2>>
PE   == <<NmE>>
PDX  == <<NmD, NmX>>
PDL  == <<NmD, NmL>>
PD2X == <<NmD2, NmX>>
PEX  == <<NmE, NmX>>

FsNodes == {PD, PD2, PE, PDX, PDL, PD2X, PEX}
FileNodes == {PDX, PDL, PD2X, PEX}         \* nodes that come and go
LinkNodes == {PDL}                          \* where symbolic links are made
LinkTargets == {PE, PEX, PD2, PD2X, PDX, PDL}

InitFs ==
    [p \in FsNodes |-> IF p \in {PD, PD2, PE} THEN DirEntry ELSE NoEntry]

AllowedChoices == {{PD}, {PD, PE}}

Requests ==
    {[base |-> "abs", segs |-> s] :
        s \in {PD, PDX, PDL, PDL \o <<NmX>>, PDL \o <<NmN>>, <<NmD, NmN>>,
               <<NmD, NmN, NmN>>, PD2X, PEX, <<NmD, DotDot, NmD2, NmX>>,
               <<NmD, Dot, NmX>>}}
    \cup {[base |-> "rel", segs |-> s] : s \in {<<NmX>>, <<DotDot, NmE, NmX>>}}
    \cup {[base |-> "home", segs |-> s] : s \in {<<NmX>>}}

NoCall == [fn |-> "none", req |-> [base |-> "abs", segs |-> <<>>], res |-> Failed]

PathInit ==
    /\ fs = InitFs
    /\ allowedDirectories \in AllowedChoices
    /\ call = NoCall

\* the environment creates a regular file
CreateFile(p) ==
    /\ fs[p].kind = "none"
    /\ fs' = [fs EXCEPT ![p] = FileEntry]
    /\ call' = NoCall
    /\ UNCHANGED <<allowedDirectories, cacheVars, editVars, searchVars, linesVars, toolVars, errVars, limVars, watcherVars>>

\* the environment creates a symbolic link
CreateSymlink(p, t) ==
    /\ fs[p].kind = "none"
    /\ fs' = [fs EXCEPT ![p] = LinkTo(t)]
    /\ call' = NoCall
    /\ UNCHANGED <<allowedDirectories, cacheVars, editVars, searchVars, linesVars, toolVars, errVars, limVars, watcherVars>>

\* the environment removes a file or a link
RemoveNode(p) ==
    /\ fs[p].kind # "none"
    /\ fs' = [fs EXCEPT ![p] = NoEntry]
    /\ call' = NoCall
    /\ UNCHANGED <<allowedDirectories, cacheVars, editVars, searchVars, linesVars, toolVars, errVars, limVars, watcherVars>>

\* a caller of the security module validates a path
CallValidatePath(req) ==
    /\ call' = [fn |-> "module", req |-> req,
                res |-> validatePath(fs, req, allowedDirectories, WorkingDirectory)]
    /\ UNCHANGED <<fs, allowedDirectories, cacheVars, editVars, searchVars, linesVars, toolVars, errVars, limVars, watcherVars>>

\* a tool handler of the server entry point validates a path
CallEntryValidatePath(req) ==
    /\ call' = [fn |-> "entry", req |-> req,
                res |-> entryValidatePath(fs, req, allowedDirectories)]
    /\ UNCHANGED <<fs, allowedDirectories, cacheVars, editVars, searchVars, linesVars, toolVars, errVars, limVars, watcherVars>>

PathNext ==
    \/ \E p \in FileNodes : CreateFile(p)
    \/ \E p \in LinkNodes, t \in LinkTargets : CreateSymlink(p, t)
    \/ \E p \in FileNodes : RemoveNode(p)
    \/ \E req \in Requests : CallValidatePath(req)
    \/ \E req \in Requests : CallEntryValidatePath(req)

\* ---- claims about path validation --------------------------------------

\* where an operation on path p lands once every symbolic link on the way,
\* the last component included, has been followed; p need not exist
RECURSIVE WalkLoc(_, _, _, _)
WalkLoc(f, cur, rest, fuel) ==
    IF rest = <<>> THEN cur
    ELSE LET q == Append(cur, Head(rest))
             e == Entry(f, q)
         IN CASE e.kind = "none" -> cur \o rest
              [] e.kind = "dir"  -> WalkLoc(f, q, Tail(rest), fuel)
              [] e.kind = "file" -> q \o Tail(rest)
              [] e.kind = "link" ->
                    IF fuel = 0 THEN q \o Tail(rest)
                    ELSE WalkLoc(f, WalkLoc(f, <<>>, e.target, fuel - 1),
                                 Tail(rest), fuel - 1)

ResolvedPosition(f, p) == WalkLoc(f, <<>>, p, MaxLinkDepth)

CallAbsolute == Absolute(call.req, WorkingDirectory)

\* C1: validatePath rejects with PermissionDeniedError every requested path
\* whose normalized absolute form is not under (equal to, or directory plus
\* separator) any allowed directory.
C1_RejectsOutside ==
    (call.fn = "module" /\ ~UnderSome(CallAbsolute, allowedDirectories))
        => call.res.status = "denied"

\* C2: validatePath of the security module fails with PermissionDeniedError
\* for every existing path literally inside an allowed directory whose
\* symlink-resolved real path is outside every allowed directory.
C2_RejectsSymlinkEscape ==
    (/\ call.fn = "module"
     /\ UnderSome(CallAbsolute, allowedDirectories)
     /\ realpath(fs, CallAbsolute).ok
     /\ ~UnderSome(realpath(fs, CallAbsolute).path, allowedDirectories))
        => call.res.status = "denied"

\* C3: the server entry point's validatePath throws for every existing path
\* inside an allowed directory whose real path is outside every allowed
\* directory.
C3_EntryRejectsSymlinkEscape ==
    (/\ call.fn = "entry"
     /\ UnderSome(CallAbsolute, allowedDirectories)
     /\ realpath(fs, CallAbsolute).ok
     /\ ~UnderSome(realpath(fs, CallAbsolute).path, allowedDirectories))
        => call.res.status # "ok"

\* C4: every path validatePath returns designates a location whose
\* symlink-resolved position is under some allowed directory at validation
\* time, a dangling symbolic link included.
C4_ReturnedPathInside ==
    (call.fn = "module" /\ call.res.status = "ok")
        => UnderSome(ResolvedPosition(fs, call.res.path), allowedDirectories)

\* C21: when the requested path does not exist, validatePath decides on
\* the real path of the parent directory: it returns the absolute requested
\* path if the parent's real path is under an allowed directory, throws
\* PermissionDeniedError if it is outside every allowed directory, and
\* throws FileNotFoundError if the parent does not exist either.
C21_ParentFallback ==
    (call.fn = "module" /\ ~realpath(fs, CallAbsolute).ok)
        => IF ~realpath(fs, dirname(CallAbsolute)).ok
           THEN call.res = FileNotFound
           ELSE IF UnderSome(realpath(fs, dirname(CallAbsolute)).path,
                             allowedDirectories)
                THEN call.res = Ok(CallAbsolute)
                ELSE call.res = Denied

\* The message of the Error the server entry point's validatePath throws: a
\* fixed text, the paths interpolated into it and the directories listed in
\* it.  The error for a parent outside the allowed directories is thrown
\* inside the inner try and replaced by its catch.
entryValidatePathMessage(f, requestedPath, dirs) ==
    LET absolute == Absolute(requestedPath, WorkingDirectory)
    IN IF ~IsAllowed(absolute, dirs)
       THEN [text |-> "Access denied - path outside allowed directories: .. not in ..",
             paths |-> {absolute}, dirs |-> dirs]
       ELSE [text |-> "Parent directory does not exist: ..",
             paths |-> {dirname(absolute)}, dirs |-> {}]

\* CallTool handler, catch: the text answered is "Error: " and the message
CaughtText(message) ==
    [prefix |-> "Error: ", text |-> message.text, paths |-> message.paths,
     dirs |-> message.dirs, isError |-> TRUE]

\* the answer of the tool call whose path validation just failed
CallErrorText == CaughtText(entryValidatePathMessage(fs, call.req, allowedDirectories))

\* C31: no error text returned to a client by a tool call contains an
\* absolute internal path, the list of allowed directories or a low-level OS
\* error code.
C31_ErrorTextHidesLayout ==
    (call.fn = "entry" /\ call.res.status = "error")
        => /\ CallErrorText.paths = {}
           /\ CallErrorText.dirs = {}

(***************************************************************************)
(* FILE CACHE                                                              *)
(* contentCache and metadataCache are lru-cache instances.  An lru-cache   *)
(* is a list of entries, most recently used first; each entry carries the  *)
(* time it was set or last refreshed (start) and the ttl it was set with   *)
(* (0 = never expires).  dispose runs whenever an entry leaves the cache   *)
(* or is overwritten.                                                      *)
(***************************************************************************)

Paths == {"a", "b"}

\* file contents: strings of the one-byte character x and the two-byte
\* character e-acute
Contents == {<<"x">>, <<"E">>, <<"x", "E">>}

CharBytes(ch) == IF ch = "E" THEN 2 ELSE 1

\* Buffer.byteLength(content, "utf-8")
RECURSIVE ByteLength(_)
ByteLength(c) == IF c = <<>> THEN 0 ELSE CharBytes(Head(c)) + ByteLength(Tail(c))

\* the bytes of a file are determined by its version, which is its mtime
FileData(m) ==
    CASE m % 3 = 1 -> <<"x">>
      [] m % 3 = 2 -> <<"E">>
      [] OTHER     -> <<"x", "E">>

NoMeta == [present |-> FALSE, mtime |-> 0, size |-> 0, start |-> 0, ttl |-> 0]
Null   == [hit |-> FALSE, content |-> <<>>]
Hit(c) == [hit |-> TRUE, content |-> c]
NoValue == [present |-> FALSE, content |-> <<>>, mtime |-> 0, size |-> 0]

\* ---- lru-cache -------------------------------------------------------

\* position of key k in the list, 0 when absent
LruIndex(cc, k) ==
    IF \E i \in 1..Len(cc) : cc[i].key = k
    THEN CHOOSE i \in 1..Len(cc) : cc[i].key = k
    ELSE 0

LruRemoveAt(cc, i) == SubSeq(cc, 1, i - 1) \o SubSeq(cc, i + 1, Len(cc))

\* #isStale: ttl set, start set, and more than ttl elapsed
LruIsStale(e, t) == e.ttl # 0 /\ e.start # 0 /\ t - e.start > e.ttl

LruValue(e) ==
    [present |-> TRUE, content |-> e.content, mtime |-> e.mtime, size |-> e.size]

\* the dispose callback of contentCache
dispose(c, value) ==
    [c EXCEPT !.currentSize = @ - value.size,
              !.stats.evictions = @ + 1]

\* contentCache.delete(key): drops the entry and runs dispose on it
ContentDelete(c, k) ==
    LET i == LruIndex(c.contentCache, k)
    IN IF i = 0 THEN c
       ELSE dispose([c EXCEPT !.contentCache = LruRemoveAt(@, i)],
                    c.contentCache[i])

\* contentCache.get(key): a stale entry is deleted (dispose runs) and
\* undefined returned; otherwise the entry becomes the most recently used
\* and, updateAgeOnGet being set, its age restarts.
ContentGet(c, k, t) ==
    LET i == LruIndex(c.contentCache, k)
    IN IF i = 0 THEN [c |-> c, value |-> NoValue]
       ELSE LET e == c.contentCache[i]
            IN IF LruIsStale(e, t)
               THEN [c |-> ContentDelete(c, k), value |-> NoValue]
               ELSE [c |-> [c EXCEPT !.contentCache =
                                <<[e EXCEPT !.start = IF e.ttl # 0 THEN t ELSE @]>>
                                \o LruRemoveAt(@, i)],
                     value |-> LruValue(e)]

\* contentCache.set(key, value): an existing entry is overwritten (dispose
\* runs on the old value); the entry becomes the most recently used and
\* takes the cache's current ttl.
ContentSet(c, k, content, mtime, size, t) ==
    LET i == LruIndex(c.contentCache, k)
        e == [key |-> k, content |-> content, mtime |-> mtime, size |-> size,
              start |-> IF c.lruTtl # 0 THEN t ELSE 0, ttl |-> c.lruTtl]
    IN IF i = 0
       THEN [c EXCEPT !.contentCache = <<e>> \o @]
       ELSE dispose([c EXCEPT !.contentCache = <<e>> \o LruRemoveAt(@, i)],
                    c.contentCache[i])

\* contentCache.clear(): dispose runs on every entry
RECURSIVE ContentClear(_)
ContentClear(c) ==
    IF c.contentCache = <<>> THEN c
    ELSE ContentClear(dispose([c EXCEPT !.contentCache = Tail(@)],
                              Head(c.contentCache)))

\* contentCache.keys(): most recently used first, stale entries skipped
ContentKeys(c, t) ==
    LET keep(e) == ~LruIsStale(e, t)
    IN [i \in 1..Len(SelectSeq(c.contentCache, keep)) |->
            SelectSeq(c.contentCache, keep)[i].key]

\* metadataCache.set(key, value): the entry takes the cache's current ttl
MetaEntry(c, mtime, size, t) ==
    [present |-> TRUE, mtime |-> mtime, size |-> size,
     start |-> IF c.lruTtl # 0 THEN t ELSE 0, ttl |-> c.lruTtl]

\* stat.size
StatSize(stat) == ByteLength(FileData(stat.mtime))

\* ---- FileCache -------------------------------------------------------

NoKey == "-"

\* getOldestKey: the last key the keys() iterator yields
getOldestKey(c, t) ==
    LET ks == ContentKeys(c, t)
    IN IF ks = <<>> THEN NoKey ELSE ks[Len(ks)]

\* invalidate(filePath)
invalidate(c, p, t) ==
    LET g == ContentGet(c, p, t)
        c1 == IF g.value.present
              THEN [g.c EXCEPT !.currentSize = @ - g.value.size]
              ELSE g.c
        c2 == ContentDelete(c1, p)
    IN [c2 EXCEPT !.metadataCache = [@ EXCEPT ![p] = NoMeta]]

\* invalidateAll()
invalidateAll(c) ==
    [ContentClear(c) EXCEPT !.metadataCache = [q \in Paths |-> NoMeta],
                            !.currentSize = 0]

\* get that reports the miss but leaves the entries of a changed file
get_KeepsChanged(c, p, t, stat) ==
    IF ~c.config.enabled THEN [c |-> c, ret |-> Null]
    ELSE LET g == ContentGet(c, p, t)
         IN IF ~g.value.present
            THEN [c |-> [g.c EXCEPT !.stats.misses = @ + 1], ret |-> Null]
            ELSE IF ~stat.exists \/ stat.mtime # g.value.mtime
                 THEN [c |-> [g.c EXCEPT !.stats.misses = @ + 1], ret |-> Null]
                 ELSE [c |-> [g.c EXCEPT !.stats.hits = @ + 1],
                       ret |-> Hit(g.value.content)]

\* get(filePath): the cache after the call and the value returned
get(c, p, t, stat) ==
    IF ~c.config.enabled THEN [c |-> c, ret |-> Null]
    ELSE LET g == ContentGet(c, p, t)
         IN IF ~g.value.present
            THEN [c |-> [g.c EXCEPT !.stats.misses = @ + 1], ret |-> Null]
            ELSE IF ~stat.exists \/ stat.mtime # g.value.mtime
                 THEN [c |-> [invalidate(g.c, p, t) EXCEPT !.stats.misses = @ + 1],
                       ret |-> Null]
                 ELSE [c |-> [g.c EXCEPT !.stats.hits = @ + 1],
                       ret |-> Hit(g.value.content)]

\* the eviction loop of set: while the new entry does not fit and the
\* cache is not empty, delete the oldest key
RECURSIVE EvictFor(_, _, _)
EvictFor(c, size, t) ==
    IF c.currentSize + size > c.config.maxSize /\ Len(c.contentCache) > 0
    THEN LET oldestKey == getOldestKey(c, t)
         IN IF oldestKey # NoKey
            THEN EvictFor(ContentDelete(c, oldestKey), size, t)
            ELSE c
    ELSE c

\* set with a failing stat that empties the cache before it returns
set_ClearsOnFailure(c, p, content, t, stat) ==
    IF ~c.config.enabled THEN c
    ELSE IF ~stat.exists THEN invalidateAll(c)
    ELSE LET size == ByteLength(content)
             c1 == EvictFor(c, size, t)
         IN IF size > c1.config.maxSize THEN c1
            ELSE LET c2 == ContentSet(c1, p, content, stat.mtime, size, t)
                 IN [c2 EXCEPT !.currentSize = @ + size,
                               !.metadataCache = [@ EXCEPT ![p] =
                                   MetaEntry(c, stat.mtime, StatSize(stat), t)]]

\* set that also refuses content exactly as large as the budget
set_RefusesFull(c, p, content, t, stat) ==
    IF ~c.config.enabled THEN c
    ELSE IF ~stat.exists THEN c
    ELSE LET size == ByteLength(content)
             c1 == EvictFor(c, size, t)
         IN IF size >= c1.config.maxSize THEN c1
            ELSE LET c2 == ContentSet(c1, p, content, stat.mtime, size, t)
                 IN [c2 EXCEPT !.currentSize = @ + size,
                               !.metadataCache = [@ EXCEPT ![p] =
                                   MetaEntry(c, stat.mtime, StatSize(stat), t)]]

\* set(filePath, content)
set(c, p, content, t, stat) ==
    IF ~c.config.enabled THEN c
    ELSE IF ~stat.exists THEN c
    ELSE LET size == ByteLength(content)
             c1 == EvictFor(c, size, t)
         IN IF size > c1.config.maxSize THEN c1
            ELSE LET c2 == ContentSet(c1, p, content, stat.mtime, size, t)
                 IN [c2 EXCEPT !.currentSize = @ + size,
                               !.metadataCache = [@ EXCEPT ![p] =
                                   MetaEntry(c, stat.mtime, StatSize(stat), t)]]

\* getStats()
getStats(c) ==
    [hits |-> c.stats.hits, misses |-> c.stats.misses,
     evictions |-> c.stats.evictions,
     currentSize |-> c.currentSize, entryCount |-> Len(c.contentCache)]

\* getMetadata(filePath): whether a metadata record is returned
getMetadata(c, p, t, stat) ==
    LET m == c.metadataCache[p]
        drop == [c EXCEPT !.metadataCache = [@ EXCEPT ![p] = NoMeta]]
    IN IF ~c.config.enabled THEN [c |-> c, ret |-> FALSE]
       ELSE IF ~m.present THEN [c |-> c, ret |-> FALSE]
       ELSE IF LruIsStale(m, t) THEN [c |-> drop, ret |-> FALSE]
       ELSE IF ~stat.exists \/ stat.mtime # m.mtime THEN [c |-> drop, ret |-> FALSE]
       ELSE [c |-> [c EXCEPT !.metadataCache =
                       [@ EXCEPT ![p].start = IF m.ttl # 0 THEN t ELSE @]],
             ret |-> TRUE]

\* the eviction loop of updateConfig
RECURSIVE EvictToMax(_, _)
EvictToMax(c, t) ==
    IF c.currentSize > c.config.maxSize /\ Len(c.contentCache) > 0
    THEN LET oldestKey == getOldestKey(c, t)
         IN IF oldestKey # NoKey
            THEN EvictToMax(ContentDelete(c, oldestKey), t)
            ELSE c
    ELSE c

\* updateConfig(config): a field of config is applied when it is given
updateConfig(c, cfg, t) ==
    LET c1 == IF cfg.hasEnabled
              THEN (IF cfg.enabled
                    THEN [c EXCEPT !.config.enabled = TRUE]
                    ELSE invalidateAll([c EXCEPT !.config.enabled = FALSE]))
              ELSE c
        c2 == IF cfg.hasTtl
              THEN [c1 EXCEPT !.config.ttl = cfg.ttl, !.lruTtl = cfg.ttl]
              ELSE c1
    IN IF cfg.hasMaxSize
       THEN EvictToMax([c2 EXCEPT !.config.maxSize = cfg.maxSize], t)
       ELSE c2

\* ---- state and operations of the cache component ---------------------

MaxOps == 5   \* calls and file events followed from the initial state

TtlMs == 1                  \* the ttl used when one is configured
MaxSizes == {2, 3}          \* the byte budgets tried

\* new FileCache(config)
NewFileCache(config) ==
    [contentCache |-> <<>>,
     metadataCache |-> [q \in Paths |-> NoMeta],
     config |-> config,
     lruTtl |-> config.ttl,
     stats |-> [hits |-> 0, misses |-> 0, evictions |-> 0],
     currentSize |-> 0]

Configs ==
    [enabled : BOOLEAN, ttl : {0, TtlMs}, maxSize : MaxSizes]

NoUpdate == [hasEnabled |-> FALSE, enabled |-> FALSE, hasTtl |-> FALSE, ttl |-> 0,
             hasMaxSize |-> FALSE, maxSize |-> 0]

ConfigUpdates ==
    {[NoUpdate EXCEPT !.hasEnabled = TRUE, !.enabled = b] : b \in BOOLEAN}
    \cup {[NoUpdate EXCEPT !.hasTtl = TRUE, !.ttl = n] : n \in {0, TtlMs}}
    \cup {[NoUpdate EXCEPT !.hasMaxSize = TRUE, !.maxSize = n] : n \in MaxSizes}

\* the record of a completed call: its arguments, what fs.stat answered
\* during it, the live (present, not expired) content entry its path had
\* when it started, the value it returned and the time it ran at
NoLast == [op |-> "none", path |-> NoKey, arg |-> <<>>, ret |-> Null,
           stat |-> [exists |-> FALSE, mtime |-> 0], had |-> NoValue,
           time |-> 0]

LiveEntry(c, p, t) ==
    LET i == LruIndex(c.contentCache, p)
    IN IF i # 0 /\ ~LruIsStale(c.contentCache[i], t)
       THEN LruValue(c.contentCache[i])
       ELSE NoValue

Done(op, p, arg, ret) ==
    [op |-> op, path |-> p, arg |-> arg, ret |-> ret,
     stat |-> IF p \in Paths THEN files[p] ELSE NoLast.stat,
     had |-> IF p \in Paths THEN LiveEntry(fc, p, now) ELSE NoValue,
     time |-> now]

\* the history the claims speak of: the time set inserted the entry a path
\* has, the paths in the order of their last successful get or set, the
\* latest first, and the paths whose latest set ended on a failing stat
NoHist == [insertedAt |-> [q \in Paths |-> 0], recency |-> <<>>,
           failed |-> [q \in Paths |-> FALSE]]

Used(h, p) ==
    LET other(q) == q # p
    IN [h EXCEPT !.recency = <<p>> \o SelectSeq(@, other)]

Inserted(h, p, t) == [Used(h, p) EXCEPT !.insertedAt[p] = t, !.failed[p] = FALSE]

\* set(filePath, content) gets as far as inserting the entry
Inserts(c, content, stat) ==
    c.config.enabled /\ stat.exists /\ ByteLength(content) <= c.config.maxSize

\* fs.stat throws inside set(filePath, content)
StatFails(c, stat) == c.config.enabled /\ ~stat.exists

\* the history after set(filePath, content)
AfterSet(h, c, p, content, stat, t) ==
    IF Inserts(c, content, stat) THEN Inserted(h, p, t)
    ELSE IF StatFails(c, stat) THEN [h EXCEPT !.failed[p] = TRUE]
    ELSE h

NoRead == [pending |-> FALSE, content |-> <<>>]

CacheInit ==
    /\ \E config \in Configs : fc = NewFileCache(config)
    /\ hist = NoHist
    /\ reads = [q \in Paths |-> NoRead]
    /\ files = [q \in Paths |-> [exists |-> TRUE, mtime |-> 1]]
    /\ now = 1
    /\ last = NoLast
    /\ prev = NoLast
    /\ ops = 0

Get(p) ==
    LET r == get(fc, p, now, files[p])
    IN /\ ops < MaxOps
       /\ ops' = ops + 1
       /\ fc' = r.c
       /\ last' = Done("get", p, <<>>, r.ret)
       /\ prev' = last
       /\ hist' = IF r.ret.hit THEN Used(hist, p) ELSE hist
       /\ UNCHANGED <<files, now, reads, pathVars, editVars, searchVars, linesVars, toolVars, errVars, limVars, watcherVars>>

Set(p, content) ==
    LET c == set(fc, p, content, now, files[p])
    IN /\ ops < MaxOps
       /\ ops' = ops + 1
       /\ fc' = c
       /\ last' = Done("set", p, content, Null)
       /\ prev' = last
       /\ hist' = AfterSet(hist, fc, p, content, files[p], now)
       /\ UNCHANGED <<files, now, reads, pathVars, editVars, searchVars, linesVars, toolVars, errVars, limVars, watcherVars>>

GetMetadata(p) ==
    LET r == getMetadata(fc, p, now, files[p])
    IN /\ ops < MaxOps
       /\ ops' = ops + 1
       /\ fc' = r.c
       /\ last' = Done("getMetadata", p, <<>>, Null)
       /\ prev' = last
       /\ UNCHANGED <<files, now, hist, reads, pathVars, editVars, searchVars, linesVars, toolVars, errVars, limVars, watcherVars>>

Invalidate(p) ==
    LET c == invalidate(fc, p, now)
    IN /\ ops < MaxOps
       /\ ops' = ops + 1
       /\ fc' = c
       /\ last' = Done("invalidate", p, <<>>, Null)
       /\ prev' = last
       /\ UNCHANGED <<files, now, hist, reads, pathVars, editVars, searchVars, linesVars, toolVars, errVars, limVars, watcherVars>>

InvalidateAll ==
    LET c == invalidateAll(fc)
    IN /\ ops < MaxOps
       /\ ops' = ops + 1
       /\ fc' = c
       /\ last' = Done("invalidateAll", NoKey, <<>>, Null)
       /\ prev' = last
       /\ UNCHANGED <<files, now, hist, reads, pathVars, editVars, searchVars, linesVars, toolVars, errVars, limVars, watcherVars>>

UpdateConfig(cfg) ==
    LET c == updateConfig(fc, cfg, now)
    IN /\ ops < MaxOps
       /\ ops' = ops + 1
       /\ fc' = c
       /\ last' = Done("updateConfig", NoKey, <<>>, Null)
       /\ prev' = last
       /\ UNCHANGED <<files, now, hist, reads, pathVars, editVars, searchVars, linesVars, toolVars, errVars, limVars, watcherVars>>

\* the file is modified outside the cache: a new version, a later mtime
TouchFile(p) ==
    /\ ops < MaxOps
    /\ ops' = ops + 1
    /\ files' = [files EXCEPT ![p] = [exists |-> TRUE, mtime |-> @.mtime + 1]]
    /\ UNCHANGED <<fc, now, last, prev, hist, reads, pathVars, editVars, searchVars, linesVars, toolVars, errVars, limVars, watcherVars>>

\* the file is removed outside the cache
RemoveFile(p) ==
    /\ files[p].exists
    /\ ops < MaxOps
    /\ ops' = ops + 1
    /\ files' = [files EXCEPT ![p].exists = FALSE]
    /\ UNCHANGED <<fc, now, last, prev, hist, reads, pathVars, editVars, searchVars, linesVars, toolVars, errVars, limVars, watcherVars>>

\* the file can be stat'ed again and is as it was: it is moved back into
\* place, or the cause of a passing stat error is gone
RestoreFile(p) ==
    /\ ~files[p].exists
    /\ ops < MaxOps
    /\ ops' = ops + 1
    /\ files' = [files EXCEPT ![p].exists = TRUE]
    /\ UNCHANGED <<fc, now, last, prev, hist, reads, pathVars, editVars, searchVars, linesVars, toolVars, errVars, limVars, watcherVars>>

\* time passes
Tick ==
    /\ ops < MaxOps
    /\ ops' = ops + 1
    /\ now' = now + 1
    /\ UNCHANGED <<fc, files, last, prev, hist, reads, pathVars, editVars, searchVars, linesVars, toolVars, errVars, limVars, watcherVars>>

\* a caller reads the file to serve a request: it holds the bytes the file
\* has at this moment
ReadFile(p) ==
    /\ files[p].exists
    /\ ops < MaxOps
    /\ ops' = ops + 1
    /\ reads' = [reads EXCEPT ![p] = [pending |-> TRUE,
                                      content |-> FileData(files[p].mtime)]]
    /\ UNCHANGED <<fc, files, now, last, prev, hist, pathVars, editVars, searchVars, linesVars, toolVars, errVars, limVars, watcherVars>>

\* the caller passes what it read to set(filePath, content)
CacheRead(p) ==
    LET c == set(fc, p, reads[p].content, now, files[p])
    IN /\ reads[p].pending
       /\ ops < MaxOps
       /\ ops' = ops + 1
       /\ fc' = c
       /\ reads' = [reads EXCEPT ![p] = NoRead]
       /\ last' = Done("set", p, reads[p].content, Null)
       /\ prev' = last
       /\ hist' = AfterSet(hist, fc, p, reads[p].content, files[p], now)
       /\ UNCHANGED <<files, now, pathVars, editVars, searchVars, linesVars, toolVars, errVars, limVars, watcherVars>>

CacheNext ==
    \/ \E p \in Paths : Get(p)
    \/ \E p \in Paths, content \in Contents : Set(p, content)
    \/ \E p \in Paths : GetMetadata(p)
    \/ \E p \in Paths : Invalidate(p)
    \/ InvalidateAll
    \/ \E cfg \in ConfigUpdates : UpdateConfig(cfg)
    \/ \E p \in Paths : TouchFile(p)
    \/ \E p \in Paths : RemoveFile(p)
    \/ Tick

\* read-through callers only: every set passes what its caller read
ReadThroughNext ==
    \/ \E p \in Paths : ReadFile(p)
    \/ \E p \in Paths : CacheRead(p)
    \/ \E p \in Paths : Get(p)
    \/ \E p \in Paths : TouchFile(p)
    \/ \E p \in Paths : RemoveFile(p)
    \/ Tick

\* set and get on files whose stat fails and succeeds again
StatFailureNext ==
    \/ \E p \in Paths, content \in Contents : Set(p, content)
    \/ \E p \in Paths : Get(p)
    \/ \E p \in Paths : TouchFile(p)
    \/ \E p \in Paths : RemoveFile(p)
    \/ \E p \in Paths : RestoreFile(p)
    \/ Tick

\* ---- claims about the cache --------------------------------------------

RECURSIVE SumSizes(_)
SumSizes(cc) == IF cc = <<>> THEN 0 ELSE Head(cc).size + SumSizes(Tail(cc))

Cached(c, p) == LruIndex(c.contentCache, p) # 0

\* C5: after any sequence of set, get, invalidate, invalidateAll and
\* updateConfig calls, the sizes of the entries held in the content cache
\* sum to at most config.maxSize.
C5_SizeWithinBudget ==
    SumSizes(fc.contentCache) <= fc.config.maxSize

\* a get call found a live entry for its path, and the file was gone or
\* its mtime was not the recorded one
GetOnChangedFile ==
    /\ last.op = "get"
    /\ last.had.present
    /\ (~last.stat.exists \/ last.stat.mtime # last.had.mtime)

\* C8: get(path) returns a miss whenever the file's current mtime differs
\* from the one recorded in the entry, or the file cannot be stat'ed, even
\* within the ttl; after it neither the content cache nor the metadata
\* cache holds an entry for the path.
C8_ChangedFileMisses ==
    GetOnChangedFile =>
        /\ last.ret = Null
        /\ ~Cached(fc, last.path)
        /\ ~fc.metadataCache[last.path].present

\* the entry was live and the file exists with another mtime: a miss
C8_Witness ==
    /\ GetOnChangedFile
    /\ last.stat.exists
    /\ fc.config.ttl # 0
    /\ last.ret = Null

\* get(path) was called directly after set(path, content) completed, the
\* cache enabled, the file there with the same mtime at both calls
GetAfterSet ==
    /\ prev.op = "set"
    /\ last.op = "get"
    /\ last.path = prev.path
    /\ fc.config.enabled
    /\ prev.stat.exists
    /\ last.stat = prev.stat

\* C9 as stated: with the cache enabled, get(path) after set(path, content)
\* returns exactly content, provided the file's mtime is the same at both
\* calls.
C9_GetAfterSetReturnsContent ==
    GetAfterSet => last.ret = Hit(prev.arg)

\* C9 as amended: ... provided also that the byte length of content does
\* not exceed maxSize and that, with a ttl configured, no more than ttl
\* milliseconds passed between the two calls.
C9_GetAfterFittingSet ==
    (/\ GetAfterSet
     /\ ByteLength(prev.arg) <= fc.config.maxSize
     /\ (fc.config.ttl = 0 \/ last.time - prev.time <= fc.config.ttl))
        => last.ret = Hit(prev.arg)

\* a hit on what was just set, time having passed within the ttl
C9_Witness ==
    /\ GetAfterSet
    /\ fc.config.ttl # 0
    /\ last.time > prev.time
    /\ last.ret = Hit(prev.arg)

\* C10: set with content whose byte length exceeds maxSize is a no-op: no
\* entry is inserted and the cached entries, the tracked total size and the
\* eviction counter are unchanged.
C10_OversizeSetIsNoOp ==
    [][\A p \in Paths, content \in Contents :
          (Set(p, content) /\ ByteLength(content) > fc.config.maxSize)
             => /\ fc'.contentCache = fc.contentCache
                /\ fc'.currentSize = fc.currentSize
                /\ fc'.stats.evictions = fc.stats.evictions]_vars

\* the entry of path p in the content cache (p is cached)
EntryOf(c, p) == c.contentCache[LruIndex(c.contentCache, p)]

\* C11: a cached entry is never served as a hit once more than ttl
\* milliseconds have passed since set inserted it, however often get was
\* called on it in between and even if the file is unchanged.  (The ttl is
\* the configured one, the entry having been inserted under it.)
C11_NoHitPastTtl ==
    (/\ last.op = "get"
     /\ last.ret.hit
     /\ fc.config.ttl # 0
     /\ EntryOf(fc, last.path).ttl = fc.config.ttl)
        => last.time - hist.insertedAt[last.path] <= fc.config.ttl

\* the keys the content cache holds
KeySet(c) == {c.contentCache[i].key : i \in 1..Len(c.contentCache)}

\* how many paths were successfully got or set since p last was
Age(h, p) == CHOOSE i \in 1..Len(h.recency) : h.recency[i] = p

\* going from cache c to cache c1 removed only entries whose last
\* successful get or set is older than that of every entry left
OldestFirst(h, c, c1) ==
    \A e \in KeySet(c) \ KeySet(c1), r \in KeySet(c1) : Age(h, e) > Age(h, r)

\* C12: whenever set or updateConfig evicts entries to make room, each
\* evicted entry is the one whose most recent successful get or set is the
\* oldest among the entries then in the content cache.
C12_EvictsLeastRecentlyUsed ==
    [][/\ \A p \in Paths, content \in Contents :
             (Set(p, content) /\ fc.config.enabled /\ files[p].exists)
                => OldestFirst(hist, fc, EvictFor(fc, ByteLength(content), now))
       /\ \A cfg \in ConfigUpdates :
             (UpdateConfig(cfg) /\ cfg.hasMaxSize)
                => OldestFirst(hist, fc,
                               EvictToMax([fc EXCEPT !.config.maxSize = cfg.maxSize],
                                          now))]_vars

\* C13: under every interleaving of external file modifications with a
\* read-through (a caller reads the file, then calls set with what it read)
\* and with get calls, a cache hit returns exactly the bytes the file had at
\* the modification time that get observed.
C13_HitIsCurrentContent ==
    (last.op = "get" /\ last.ret.hit)
        => last.ret.content = FileData(last.stat.mtime)

\* C22: after every FileCache operation, getStats().currentSize equals the
\* sum of the sizes of the entries currently in the content cache and is
\* never negative, and getStats().entryCount equals the number of those
\* entries.
C22_StatsMatchEntries ==
    /\ getStats(fc).currentSize = SumSizes(fc.contentCache)
    /\ getStats(fc).currentSize >= 0
    /\ getStats(fc).entryCount = Len(fc.contentCache)

\* the sizes of the live entries of paths other than p
RECURSIVE OthersLiveSize(_, _, _)
OthersLiveSize(cc, p, t) ==
    IF cc = <<>> THEN 0
    ELSE (IF Head(cc).key # p /\ ~LruIsStale(Head(cc), t) THEN Head(cc).size ELSE 0)
         + OthersLiveSize(Tail(cc), p, t)

\* the live entries of paths other than p that c holds and c1 does not
OthersRemoved(c, c1, p, t) ==
    {q \in Paths \ {p} :
        /\ Cached(c, q)
        /\ ~LruIsStale(c.contentCache[LruIndex(c.contentCache, q)], t)
        /\ ~Cached(c1, q)}

\* C34: FileCache.set(path, content) removes entries of other paths only
\* when the live entries other than path's own, together with the new
\* entry, would exceed maxSize; in particular, re-setting an already cached
\* path with content of the same size evicts no other entry.
C34_EvictsOthersOnlyForRoom ==
    [][\A p \in Paths, content \in Contents :
          (Set(p, content) /\ OthersRemoved(fc, fc', p, now) # {})
             => OthersLiveSize(fc.contentCache, p, now) + ByteLength(content)
                   > fc.config.maxSize]_vars

\* a step in which set ran while the stat of its file failed
FailedSetStep ==
    /\ ops' = ops + 1
    /\ last'.op = "set"
    /\ prev' = last
    /\ ~last'.stat.exists

\* a failed set leaves the content cache, the metadata cache, the tracked
\* size and the statistics as they were
FailedSetChangesNothing == [][FailedSetStep => fc' = fc]_vars

NL == "\n"
CR == "\r"
SP == " "
BQ == "bq"     \* the backquote character, written by name

\* String.prototype.indexOf, 1-based; 0 when sub does not occur
IndexOf(s, sub) ==
    LET hits == {i \in 1..(Len(s) - Len(sub) + 1) :
                    SubSeq(s, i, i + Len(sub) - 1) = sub}
    IN IF hits = {} THEN 0 ELSE CHOOSE i \in hits : \A j \in hits : i <= j

\* String.prototype.includes
Includes(s, sub) == IndexOf(s, sub) # 0

\* the replacement patterns of String.prototype.replace: $$ is a dollar
\* sign, $& the matched text, $ and a backquote the text before it, $ and
\* a quote the text after it
RECURSIVE ExpandReplacement(_, _, _, _)
ExpandReplacement(new, matched, before, after) ==
    IF new = <<>> THEN <<>>
    ELSE IF Head(new) = "$" /\ Len(new) >= 2 /\ new[2] \in {"$", "&", BQ, "'"}
         THEN (CASE new[2] = "$" -> <<"$">>
                 [] new[2] = "&" -> matched
                 [] new[2] = BQ -> before
                 [] new[2] = "'" -> after)
              \o ExpandReplacement(SubSeq(new, 3, Len(new)), matched, before, after)
         ELSE <<Head(new)>> \o ExpandReplacement(Tail(new), matched, before, after)

\* String.prototype.replace(old, new) with a string pattern: the first
\* occurrence only
Replace(s, old, new) ==
    LET i == IndexOf(s, old)
        before == SubSeq(s, 1, i - 1)
        after == SubSeq(s, i + Len(old), Len(s))
    IN IF i = 0 THEN s
       ELSE before \o ExpandReplacement(new, old, before, after) \o after

\* text.replace(/\r\n/g, "\n")
RECURSIVE normalizeLineEndings(_)
normalizeLineEndings(text) ==
    IF text = <<>> THEN <<>>
    ELSE IF Len(text) >= 2 /\ text[1] = CR /\ text[2] = NL
         THEN <<NL>> \o normalizeLineEndings(SubSeq(text, 3, Len(text)))
         ELSE <<Head(text)>> \o normalizeLineEndings(Tail(text))

\* String.prototype.split("\n"): never empty, "" gives [""]
RECURSIVE Split(_)
Split(s) ==
    LET i == IndexOf(s, <<NL>>)
    IN IF i = 0 THEN <<s>>
       ELSE <<SubSeq(s, 1, i - 1)>> \o Split(SubSeq(s, i + 1, Len(s)))

\* Array.prototype.join("\n")
RECURSIVE Join(_)
Join(lines) ==
    IF lines = <<>> THEN <<>>
    ELSE IF Len(lines) = 1 THEN lines[1]
    ELSE lines[1] \o <<NL>> \o Join(Tail(lines))

IsWhitespace(ch) == ch \in {SP, "\t", CR, NL}

\* line.match(/^\s*/)[0]
RECURSIVE LeadingWhitespace(_)
LeadingWhitespace(s) ==
    IF s # <<>> /\ IsWhitespace(Head(s))
    THEN <<Head(s)>> \o LeadingWhitespace(Tail(s))
    ELSE <<>>

\* String.prototype.trimStart
TrimStart(s) == SubSeq(s, Len(LeadingWhitespace(s)) + 1, Len(s))

\* String.prototype.trim
RECURSIVE Trim(_)
Trim(s) ==
    LET t == TrimStart(s)
    IN IF t # <<>> /\ IsWhitespace(t[Len(t)])
       THEN Trim(SubSeq(t, 1, Len(t) - 1))
       ELSE t

\* " ".repeat(n)
Spaces(n) == [i \in 1..n |-> SP]

\* oldLines.every((oldLine, j) => contentLine && oldLine.trim() === contentLine.trim())
\* for the window of contentLines that starts at index i (1-based)
IsMatch(contentLines, oldLines, i) ==
    \A j \in 1..Len(oldLines) :
        LET contentLine == contentLines[i + j - 1]
        IN contentLine # <<>> /\ Trim(oldLines[j]) = Trim(contentLine)

\* one of the lines that replace a matched window, other than the first
IndentedLine(originalIndent, oldIndent, newIndent, line) ==
    IF oldIndent # <<>> /\ newIndent # <<>>
    THEN originalIndent
         \o Spaces(IF Len(newIndent) > Len(oldIndent)
                   THEN Len(newIndent) - Len(oldIndent) ELSE 0)
         \o TrimStart(line)
    ELSE line

\* normalizedNew.split("\n").map(...) for the indentation of the matched
\* window's first line
MapLines(originalIndent, oldLines, lines) ==
    [j \in 1..Len(lines) |->
        IF j = 1 THEN originalIndent \o TrimStart(lines[j])
        ELSE IndentedLine(originalIndent,
                          IF j <= Len(oldLines)
                          THEN LeadingWhitespace(oldLines[j]) ELSE <<>>,
                          LeadingWhitespace(lines[j]),
                          lines[j])]

\* the lines that replace a matched window
NewLines(contentLines, oldLines, normalizedNew, i) ==
    MapLines(LeadingWhitespace(contentLines[i]), oldLines, Split(normalizedNew))

NoMatch == [matched |-> FALSE, content |-> <<>>]

\* contentLines.splice(i, oldLines.length, ...newLines) and the join, at
\* the first window that matches
SpliceFirst(windows, contentLines, oldLines, normalizedNew) ==
    IF windows = {} THEN NoMatch
    ELSE [matched |-> TRUE,
          content |-> LET i == CHOOSE w \in windows : \A v \in windows : w <= v
                      IN Join(SubSeq(contentLines, 1, i - 1)
                              \o NewLines(contentLines, oldLines, normalizedNew, i)
                              \o SubSeq(contentLines, i + Len(oldLines),
                                        Len(contentLines)))]

\* the line-by-line matching with flexibility for whitespace
FuzzyEdit(contentLines, oldLines, normalizedNew) ==
    SpliceFirst({i \in 1..(Len(contentLines) - Len(oldLines) + 1) :
                    IsMatch(contentLines, oldLines, i)},
                contentLines, oldLines, normalizedNew)

\* one iteration of the loop over edits, the edit's texts normalized
NormalizedEdit(modifiedContent, normalizedOld, normalizedNew) ==
    IF Includes(modifiedContent, normalizedOld)
    THEN [matched |-> TRUE,
          content |-> Replace(modifiedContent, normalizedOld, normalizedNew)]
    ELSE FuzzyEdit(Split(modifiedContent), Split(normalizedOld), normalizedNew)

\* one iteration of the loop over edits: the content after the edit, or
\* no match
ApplyEdit(modifiedContent, edit) ==
    NormalizedEdit(modifiedContent,
                   normalizeLineEndings(edit.oldText),
                   normalizeLineEndings(edit.newText))

\* the contents the loop went through, the content it started on first
Prepend(modifiedContent, rest) ==
    [threw |-> rest.threw, trail |-> <<modifiedContent>> \o rest.trail]

\* the loop's result once its first edit has been tried
RECURSIVE ApplyEdits(_, _)

\* a loop that tries the next edit on the content the edit before it found
AfterEdit_OnSameContent(modifiedContent, r, edits) ==
    IF ~r.matched THEN [threw |-> TRUE, trail |-> <<modifiedContent>>]
    ELSE Prepend(modifiedContent, ApplyEdits(modifiedContent, Tail(edits)))

AfterEdit(modifiedContent, r, edits) ==
    IF ~r.matched THEN [threw |-> TRUE, trail |-> <<modifiedContent>>]
    ELSE Prepend(modifiedContent, ApplyEdits(r.content, Tail(edits)))

\* the loop over edits: the contents the loop went through (the content
\* each edit was tried on, then the final content) and whether it threw
ApplyEdits(modifiedContent, edits) ==
    IF edits = <<>> THEN [threw |-> FALSE, trail |-> <<modifiedContent>>]
    ELSE AfterEdit(modifiedContent, ApplyEdit(modifiedContent, Head(edits)), edits)

\* ---- the diff returned by applyFileEdits --------------------------------

\* the decimal digits of a number
RECURSIVE Digits(_)
Digits(n) ==
    IF n < 10 THEN <<(<<"0", "1", "2", "3", "4", "5", "6", "7", "8", "9">>)[n + 1]>>
    ELSE Digits(n \div 10) \o Digits(n % 10)

Min(a, b) == IF a < b THEN a ELSE b

\* the name the file is edited under
FilePath == <<"f">>

\* the lines createTwoFilesPatch compares: the text cut after each newline;
\* eol tells whether the line ends with one (only the last line may not)
DiffLinesOf(parts) ==
    [i \in 1..(IF parts[Len(parts)] = <<>> THEN Len(parts) - 1 ELSE Len(parts)) |->
        [text |-> parts[i], eol |-> i < Len(parts)]]

DiffLines(text) == DiffLinesOf(Split(text))

\* how many leading lines two texts share
RECURSIVE CommonPrefix(_, _)
CommonPrefix(a, b) ==
    IF a # <<>> /\ b # <<>> /\ Head(a) = Head(b)
    THEN 1 + CommonPrefix(Tail(a), Tail(b))
    ELSE 0

Reverse(q) == [i \in 1..Len(q) |-> q[Len(q) + 1 - i]]

\* how many trailing lines two texts share after their pre leading ones
CommonSuffix(a, b, pre) ==
    CommonPrefix(Reverse(SubSeq(a, pre + 1, Len(a))),
                 Reverse(SubSeq(b, pre + 1, Len(b))))

\* the lines of context createTwoFilesPatch keeps around a change
ContextLines == 4

NoNewlineMark ==
    <<"\\", " ", "N", "o", " ", "n", "e", "w", "l", "i", "n", "e", " ", "a", "t",
      " ", "e", "n", "d", " ", "o", "f", " ", "f", "i", "l", "e", NL>>

\* the lines of a hunk for some lines of the file, each behind its mark
RECURSIVE HunkLines(_, _)
HunkLines(mark, lines) ==
    IF lines = <<>> THEN <<>>
    ELSE <<mark>> \o Head(lines).text \o <<NL>>
         \o (IF Head(lines).eol THEN <<>> ELSE NoNewlineMark)
         \o HunkLines(mark, Tail(lines))

\* "@@ -start,oldLines +start,newLines @@"
HunkHeader(start, oldLines, newLines) ==
    <<"@", "@", " ", "-">>
    \o Digits(IF oldLines = 0 THEN start - 1 ELSE start) \o <<",">>
    \o Digits(oldLines) \o <<" ", "+">>
    \o Digits(IF newLines = 0 THEN start - 1 ELSE start) \o <<",">>
    \o Digits(newLines) \o <<" ", "@", "@", NL>>

\* the hunk of two texts that share their pre first and post last lines and
\* differ between: lead lines of context, the lines removed, the lines
\* added, trail lines of context
Hunk(old, new, pre, post, lead, trail) ==
    HunkHeader(pre - lead + 1,
               lead + Len(old) - pre - post + trail,
               lead + Len(new) - pre - post + trail)
    \o HunkLines(" ", SubSeq(old, pre - lead + 1, pre))
    \o HunkLines("-", SubSeq(old, pre + 1, Len(old) - post))
    \o HunkLines("+", SubSeq(new, pre + 1, Len(new) - post))
    \o HunkLines(" ", SubSeq(old, Len(old) - post + 1, Len(old) - post + trail))

HunkAround(old, new, pre, post) ==
    Hunk(old, new, pre, post, Min(pre, ContextLines), Min(post, ContextLines))

HunkAfter(old, new, pre) == HunkAround(old, new, pre, CommonSuffix(old, new, pre))

\* "Index: f", the rule, "--- f<TAB>original", "+++ f<TAB>modified"
DiffHeader ==
    <<"I", "n", "d", "e", "x", ":", " ">> \o FilePath \o <<NL>>
    \o [i \in 1..67 |-> "="] \o <<NL>>
    \o <<"-", "-", "-", " ">> \o FilePath
    \o <<"\t", "o", "r", "i", "g", "i", "n", "a", "l", NL>>
    \o <<"+", "+", "+", " ">> \o FilePath
    \o <<"\t", "m", "o", "d", "i", "f", "i", "e", "d", NL>>

\* createTwoFilesPatch of two line lists: the header, and a hunk when the
\* lists differ
TwoFilesPatch(old, new) ==
    DiffHeader \o (IF old = new THEN <<>>
                   ELSE HunkAfter(old, new, CommonPrefix(old, new)))

\* createUnifiedDiff(originalContent, newContent, filepath)
createUnifiedDiff(originalContent, newContent) ==
    TwoFilesPatch(DiffLines(normalizeLineEndings(originalContent)),
                  DiffLines(normalizeLineEndings(newContent)))

\* a run of n backquotes
Backticks(n) == [i \in 1..n |-> BQ]

\* the loop that chooses the number of backticks of the fence
RECURSIVE NumBackticks(_, _)
NumBackticks(diff, numBackticks) ==
    IF Includes(diff, Backticks(numBackticks))
    THEN NumBackticks(diff, numBackticks + 1)
    ELSE numBackticks

Fenced(diff, numBackticks) ==
    Backticks(numBackticks) \o <<"d", "i", "f", "f", NL>> \o diff
    \o Backticks(numBackticks) \o <<NL, NL>>

\* a fence of three backquotes whatever the diff holds
FormattedDiff_ThreeBackticks(diff) == Fenced(diff, 3)

\* formattedDiff
FormattedDiff(diff) == Fenced(diff, NumBackticks(diff, 3))

\* what applyFileEdits returns for the contents its loop went through
ReturnedDiff(r) ==
    IF r.threw THEN <<>>
    ELSE FormattedDiff(createUnifiedDiff(r.trail[1], r.trail[Len(r.trail)]))

\* what the call leaves: whether it threw, the contents the loop went
\* through, the content written (none when it threw or on a dry run) and
\* the text returned
WriteFile(r, dryRun) ==
    [threw |-> r.threw,
     trail |-> r.trail,
     writes |-> IF ~r.threw /\ ~dryRun THEN <<r.trail[Len(r.trail)]>> ELSE <<>>,
     ret |-> ReturnedDiff(r)]

\* the call writes the file whatever dryRun says
WriteFile_IgnoresDryRun(r, dryRun) ==
    [threw |-> r.threw,
     trail |-> r.trail,
     writes |-> IF ~r.threw THEN <<r.trail[Len(r.trail)]>> ELSE <<>>,
     ret |-> ReturnedDiff(r)]

\* what the call leaves: whether it threw, the contents the loop went
\* through and the contents written, one write per edit that matched
WritesEachEdit(r, dryRun) ==
    [threw |-> r.threw,
     trail |-> r.trail,
     writes |-> IF dryRun THEN <<>> ELSE Tail(r.trail),
     ret |-> ReturnedDiff(r)]

\* applyFileEdits that writes the file after every edit that matched
applyFileEdits_WritesEachEdit(data, edits, dryRun) ==
    WritesEachEdit(ApplyEdits(normalizeLineEndings(data), edits), dryRun)

\* applyFileEdits that writes the file even on a dry run
applyFileEdits_IgnoresDryRun(data, edits, dryRun) ==
    WriteFile_IgnoresDryRun(ApplyEdits(normalizeLineEndings(data), edits), dryRun)

\* applyFileEdits(filePath, edits, dryRun)
applyFileEdits(data, edits, dryRun) ==
    WriteFile(ApplyEdits(normalizeLineEndings(data), edits), dryRun)

\* ---- state and operations of the patch engine -----------------------

MaxDocLen == 7   \* longest file content followed
MaxEdits  == 2   \* longest list of edits tried

Docs ==
    {<<"a", NL, SP, "b", NL>>,          \* "a\n b\n"
     <<"a", CR, NL, "b">>,              \* "a\r\nb"
     <<"a", NL, NL, "b">>,              \* "a\n\nb"
     <<BQ, BQ, BQ, NL, "a">>}           \* three backquotes, "\na"

Edits ==
    {[oldText |-> <<"a">>,              newText |-> <<"b">>],
     [oldText |-> <<"b">>,              newText |-> <<"a", "$", "&">>],
     [oldText |-> <<"b", SP>>,          newText |-> <<"c">>],
     [oldText |-> <<"z">>,              newText |-> <<"a">>],
     [oldText |-> <<BQ>>,               newText |-> <<BQ, BQ>>],
     [oldText |-> <<SP, "a", NL, NL, "b">>, newText |-> <<"c">>],
     [oldText |-> <<SP, "a", NL, SP, "b">>, newText |-> <<"b", NL, SP, SP, "a">>]}

EditLists == UNION {[1..n -> Edits] : n \in 1..MaxEdits}

NoEdit == [called |-> FALSE, before |-> <<>>, edits |-> <<>>, dryRun |-> FALSE,
           threw |-> FALSE, trail |-> <<>>, writes |-> <<>>, ret |-> <<>>]

EditInit ==
    /\ doc \in Docs
    /\ editCall = NoEdit

\* a caller applies a list of edits to the file
ApplyFileEdits(edits, dryRun) ==
    /\ ~editCall.called
    /\ \E r \in {applyFileEdits(doc, edits, dryRun)} :
          /\ \A i \in 1..Len(r.trail) : Len(r.trail[i]) <= MaxDocLen
          /\ doc' = IF r.writes = <<>> THEN doc ELSE r.writes[Len(r.writes)]
          /\ editCall' = [called |-> TRUE, before |-> doc, edits |-> edits,
                          dryRun |-> dryRun, threw |-> r.threw, trail |-> r.trail,
                          writes |-> r.writes, ret |-> r.ret]
    /\ UNCHANGED <<pathVars, cacheVars, searchVars, linesVars, toolVars, errVars, limVars, watcherVars>>

\* the caller has taken the result of the call
EditReturned ==
    /\ editCall.called
    /\ editCall' = NoEdit
    /\ UNCHANGED <<doc, pathVars, cacheVars, searchVars, linesVars, toolVars, errVars, limVars, watcherVars>>

EditNext ==
    \/ \E edits \in EditLists, dryRun \in BOOLEAN : ApplyFileEdits(edits, dryRun)
    \/ EditReturned

\* ---- claims about the patch engine ----------------------------------

\* oldText occurs in content, or some window of as many content lines
\* equals it line by line after trimming
EditMatches(content, oldText) ==
    LET old == normalizeLineEndings(oldText)
        oldLines == Split(old)
        contentLines == Split(content)
    IN \/ \E i \in 1..(Len(content) - Len(old) + 1) :
              SubSeq(content, i, i + Len(old) - 1) = old
       \/ \E i \in 1..(Len(contentLines) - Len(oldLines) + 1) :
              \A j \in 1..Len(oldLines) :
                  Trim(oldLines[j]) = Trim(contentLines[i + j - 1])

\* some edit of the call matched nothing in the content it was tried on
SomeEditUnmatched ==
    /\ editCall.called
    /\ \E i \in 1..Len(editCall.edits) :
          /\ i <= Len(editCall.trail)
          /\ ~EditMatches(editCall.trail[i], editCall.edits[i].oldText)

\* C6: if any edit of the list matches neither exactly nor by a fuzzy line
\* window, applyFileEdits throws and writes nothing: the file is what it
\* was before the call, even when earlier edits had matched in memory.
C6_FailedEditWritesNothing ==
    SomeEditUnmatched =>
        /\ editCall.threw
        /\ editCall.writes = <<>>
        /\ doc = editCall.before

\* a second edit failed after the first had changed the content in memory
C6_Witness ==
    /\ SomeEditUnmatched
    /\ ~editCall.dryRun
    /\ Len(editCall.trail) = 2
    /\ editCall.trail[2] # editCall.trail[1]
    /\ editCall.threw

\* C14: applyFileEdits with dryRun = true never writes the file, and a
\* second such call with the same edits on the file as the first left it
\* returns the same diff text (or fails as the first did).
C14_DryRunWritesNothing ==
    [][\A edits \in EditLists :
          ApplyFileEdits(edits, TRUE)
             => /\ doc' = doc
                /\ editCall'.writes = <<>>
                /\ applyFileEdits(doc', edits, TRUE).ret = editCall'.ret
                /\ applyFileEdits(doc', edits, TRUE).threw = editCall'.threw]_vars

\* a dry run whose edits change the content in memory returned a diff and
\* left the file as it was
C14_Witness ==
    /\ editCall.called
    /\ editCall.dryRun
    /\ ~editCall.threw
    /\ editCall.trail[Len(editCall.trail)] # editCall.trail[1]
    /\ editCall.ret # <<>>
    /\ doc = editCall.before

\* s with the first occurrence of old, at index i, replaced by new as it is
ReplacedAt(s, old, new, i) ==
    SubSeq(s, 1, i - 1) \o new \o SubSeq(s, i + Len(old), Len(s))

\* C15: when an edit's oldText occurs in the current content, the result of
\* that edit is the content with only the first (leftmost) occurrence of
\* oldText replaced by newText taken literally, character for character,
\* and all other text unchanged.  (Both texts with their line endings
\* normalized, as the content is.)
C15_ExactMatchReplacesLiterally ==
    editCall.called =>
        \A i \in 1..(Len(editCall.trail) - 1) :
            Includes(editCall.trail[i], normalizeLineEndings(editCall.edits[i].oldText))
               => editCall.trail[i + 1] =
                     ReplacedAt(editCall.trail[i],
                                normalizeLineEndings(editCall.edits[i].oldText),
                                normalizeLineEndings(editCall.edits[i].newText),
                                IndexOf(editCall.trail[i],
                                        normalizeLineEndings(editCall.edits[i].oldText)))

\* the windows of contentLines that equal oldLines line by line after
\* trimming, empty and whitespace-only lines included
TrimmedWindows(contentLines, oldLines) ==
    {w \in 1..(Len(contentLines) - Len(oldLines) + 1) :
        \A j \in 1..Len(oldLines) :
            Trim(oldLines[j]) = Trim(contentLines[w + j - 1])}

\* contentLines with the window at w replaced
WindowReplaced(contentLines, oldLines, normalizedNew, w) ==
    Join(SubSeq(contentLines, 1, w - 1)
         \o NewLines(contentLines, oldLines, normalizedNew, w)
         \o SubSeq(contentLines, w + Len(oldLines), Len(contentLines)))

\* the edit tried on content found a window and replaced the first one;
\* next is the content after the edit, <<>> standing for a failed edit
FirstWindowReplaced(windows, contentLines, oldLines, normalizedNew, matched, next) ==
    IF windows = {} THEN ~matched
    ELSE /\ matched
         /\ next = WindowReplaced(contentLines, oldLines, normalizedNew,
                                  CHOOSE w \in windows : \A v \in windows : w <= v)

\* C16: when an edit's oldText has no exact occurrence, a window of
\* consecutive content lines with as many lines as oldText matches if and
\* only if every window line equals the corresponding oldText line after
\* trimming surrounding whitespace, including when the corresponding lines
\* are both empty or whitespace-only; the first such window is the one
\* replaced.
C16_FuzzyWindowMatchesTrimmedLines ==
    editCall.called =>
        \A i \in 1..Min(Len(editCall.trail), Len(editCall.edits)) :
            ~Includes(editCall.trail[i], normalizeLineEndings(editCall.edits[i].oldText))
               => FirstWindowReplaced(
                     TrimmedWindows(Split(editCall.trail[i]),
                                    Split(normalizeLineEndings(editCall.edits[i].oldText))),
                     Split(editCall.trail[i]),
                     Split(normalizeLineEndings(editCall.edits[i].oldText)),
                     normalizeLineEndings(editCall.edits[i].newText),
                     i < Len(editCall.trail),
                     IF i < Len(editCall.trail) THEN editCall.trail[i + 1] ELSE <<>>)

\* C35: edits are applied in list order, each one matched against the
\* in-memory content produced by the preceding edits rather than against
\* the original file, and the file is written at most once per call, only
\* after the last edit has matched.
C35_EditsInOrderOneWrite ==
    editCall.called
        => /\ editCall.trail[1] = normalizeLineEndings(editCall.before)
           /\ Len(editCall.trail) <= Len(editCall.edits) + 1
           /\ \A i \in 1..(Len(editCall.trail) - 1) :
                 /\ ApplyEdit(editCall.trail[i], editCall.edits[i]).matched
                 /\ editCall.trail[i + 1] =
                        ApplyEdit(editCall.trail[i], editCall.edits[i]).content
           /\ Len(editCall.writes) <= 1
           /\ editCall.writes # <<>>
                 => /\ ~editCall.threw
                    /\ Len(editCall.trail) = Len(editCall.edits) + 1
                    /\ editCall.writes[1] = editCall.trail[Len(editCall.trail)]
                    /\ doc = editCall.writes[1]
           /\ editCall.writes = <<>> => doc = editCall.before

\* the second edit matched the content the first had produced and not the
\* original, and the result was written
C35_Witness ==
    /\ editCall.called
    /\ Len(editCall.edits) = 2
    /\ ~editCall.threw
    /\ ~ApplyEdit(editCall.trail[1], editCall.edits[2]).matched
    /\ editCall.trail[3] # editCall.trail[2]
    /\ editCall.writes = <<editCall.trail[3]>>

\* the number of backquotes a text starts with
RECURSIVE LeadingBackticks(_)
LeadingBackticks(text) ==
    IF text # <<>> /\ Head(text) = BQ THEN 1 + LeadingBackticks(Tail(text)) ELSE 0

\* the text returned is fence, "diff", newline, body, fence, two newlines
FenceLength == LeadingBackticks(editCall.ret)
FenceBody ==
    SubSeq(editCall.ret, FenceLength + 6, Len(editCall.ret) - FenceLength - 2)

\* C33: the fence that applyFileEdits wraps around the diff consists of
\* n >= 3 backticks, where n is the smallest such number for which the diff
\* body contains no run of n consecutive backticks, so the closing fence
\* cannot occur inside the body; the loop that chooses n terminates.
C33_FenceLongerThanAnyRun ==
    (editCall.called /\ ~editCall.threw)
        => /\ FenceLength >= 3
           /\ FenceLength <= Len(FenceBody) + 3
           /\ editCall.ret = Backticks(FenceLength) \o <<"d", "i", "f", "f", NL>>
                             \o FenceBody \o Backticks(FenceLength) \o <<NL, NL>>
           /\ FenceBody = createUnifiedDiff(editCall.trail[1],
                                            editCall.trail[Len(editCall.trail)])
           /\ ~Includes(FenceBody, Backticks(FenceLength))
           /\ \A m \in 3..(FenceLength - 1) : Includes(FenceBody, Backticks(m))

\* a diff whose body holds a run of four backquotes was fenced with five
C33_Witness ==
    /\ editCall.called
    /\ ~editCall.threw
    /\ Includes(FenceBody, Backticks(4))
    /\ FenceLength = 5

(***************************************************************************)
(* SEARCH: searchFiles                                                     *)
(* The recursion is a stack of frames, the innermost call first.  A frame  *)
(* waits either for fs.readdir or for validatePath of its next entry; the  *)
(* timeout can fire at either wait.                                        *)
(***************************************************************************)

\* String.prototype.toLowerCase
LowerChar(ch) ==
    CASE ch = "A" -> "a"
      [] ch = "B" -> "b"
      [] OTHER    -> ch

ToLowerCase(str) == [i \in 1..Len(str) |-> LowerChar(str[i])]

\* the searched tree: what fs.readdir lists for a directory.  valid tells
\* whether validatePath accepts the entry, readable (of a directory)
\* whether fs.readdir of it succeeds; a symbolic link is no directory.
SearchRoot == <<<<"r">>>>

File(name)        == [name |-> name, isDir |-> FALSE, valid |-> TRUE,  readable |-> TRUE,
                      target |-> <<>>]
Dir(name)         == [name |-> name, isDir |-> TRUE,  valid |-> TRUE,  readable |-> TRUE,
                      target |-> <<>>]
InvalidFile(name) == [name |-> name, isDir |-> FALSE, valid |-> FALSE, readable |-> TRUE,
                      target |-> <<>>]
LockedDir(name)   == [name |-> name, isDir |-> TRUE,  valid |-> TRUE,  readable |-> FALSE,
                      target |-> <<>>]

\* a symbolic link to a directory: lstat, and so the Dirent of readdir, says
\* it is no directory
Link(name, target) == [name |-> name, isDir |-> FALSE, valid |-> TRUE, readable |-> TRUE,
                       target |-> target]

\* the symbolic link of the tree, in a subdirectory and pointing at the root
LinkPath == SearchRoot \o <<<<"m">>, <<"u", "p">>>>

\* the directory a path leads to once the link on the way is followed
RECURSIVE RealDir(_)
RealDir(path) ==
    IF Len(path) >= Len(LinkPath) /\ SubSeq(path, 1, Len(LinkPath)) = LinkPath
    THEN RealDir(SearchRoot \o SubSeq(path, Len(LinkPath) + 1, Len(path)))
    ELSE path

\* the entries of a directory
Entries(path) ==
    CASE path = SearchRoot ->
            <<Dir(<<"A", "b">>), InvalidFile(<<"a", "l">>), Dir(<<"m">>),
              LockedDir(<<"a", "k">>), File(<<"a">>)>>
      [] path = SearchRoot \o <<<<"A", "b">>>> ->
            <<File(<<"a">>), File(<<"b">>)>>
      [] path = SearchRoot \o <<<<"m">>>> ->
            <<File(<<"B", "a">>), Link(<<"u", "p">>, SearchRoot)>>
      [] OTHER -> <<>>

\* fs.readdir(path, {withFileTypes: true}), which follows the links of path
Listing(path) == Entries(RealDir(path))

\* Dirent.isDirectory() taken from stat, which follows links
isDirectory_FollowsLinks(entry) == entry.isDir \/ entry.target # <<>>

\* Dirent.isDirectory()
isDirectory(entry) == entry.isDir

Readable(path) == path # SearchRoot \o <<<<"a", "k">>>>

\* minimatch on whole segments: "**" stands for any number of segments
\* (but, last in the pattern, for at least one), "*" for one segment
RECURSIVE GlobMatch(_, _)
GlobMatch(rel, glob) ==
    IF glob = <<>> THEN rel = <<>>
    ELSE IF Head(glob) = <<"*", "*">>
         THEN IF Len(glob) = 1 THEN rel # <<>>
              ELSE \/ GlobMatch(rel, Tail(glob))
                   \/ (rel # <<>> /\ GlobMatch(Tail(rel), glob))
         ELSE /\ rel # <<>>
              /\ (Head(glob) = <<"*">> \/ Head(glob) = Head(rel))
              /\ GlobMatch(Tail(rel), Tail(glob))

\* pattern.includes("*") ? pattern : "**/" + pattern + "/**"
GlobPattern(pattern) ==
    IF \E i \in 1..Len(pattern) : Includes(pattern[i], <<"*">>)
    THEN pattern
    ELSE <<<<"*", "*">>>> \o pattern \o <<<<"*", "*">>>>

\* path.relative(rootPath, fullPath) for fullPath below rootPath
Relative(rootPath, fullPath) == SubSeq(fullPath, Len(rootPath) + 1, Len(fullPath))

shouldExclude(rootPath, fullPath, excludePatterns) ==
    \E pattern \in excludePatterns :
        GlobMatch(Relative(rootPath, fullPath), GlobPattern(pattern))

\* the check made on entering search() and before every entry, without
\* the abort signal
LimitReached_IgnoresAbort(s) ==
    Len(s.results) >= s.query.maxResults

\* the check made on entering search() and before every entry, with a
\* cap that lets one match too many through
LimitReached_OffByOne(s) ==
    s.aborted \/ Len(s.results) > s.query.maxResults

\* abortController.signal.aborted || results.length >= maxResults
LimitReached(s) ==
    s.aborted \/ Len(s.results) >= s.query.maxResults

\* the for loop of the innermost call, from the top of an iteration up to
\* its next wait: the call returns when its entries are used up or a limit
\* is reached, and its caller's loop goes on; otherwise validatePath of
\* the next entry is awaited.  With no call left searchFiles returns.
\* cut records that a limit made a call return with entries left.
RECURSIVE LoopTop(_)
LoopTop(s) ==
    IF s.stack = <<>> THEN [s EXCEPT !.status = "done"]
    ELSE IF Head(s.stack).entries = <<>> \/ LimitReached(s)
         THEN LoopTop([s EXCEPT !.stack = Tail(@),
                                !.cut = @ \/ Head(s.stack).entries # <<>>])
         ELSE [s EXCEPT !.stack = <<[Head(@) EXCEPT !.phase = "validate"]>> \o Tail(@)]

\* search(currentPath) up to its first wait: it returns at once when a
\* limit is reached, otherwise fs.readdir is awaited
EnterSearch(s, currentPath) ==
    IF LimitReached(s) THEN LoopTop([s EXCEPT !.cut = TRUE])
    ELSE [s EXCEPT !.stack =
            <<[path |-> currentPath, entries |-> <<>>, phase |-> "readdir"]>> \o @,
                   !.reads = @ + 1]

\* searchFiles(rootPath, pattern, excludePatterns, maxResults, timeout, validatePath)
Queries(maxCap) ==
    [pattern : {<<"a">>, <<"A">>, <<"b">>},
     excludePatterns : {{}, {<<<<"m">>>>}, {<<<<"A", "b">>>>}, {<<<<"*">>, <<"a">>>>}},
     maxResults : 0..maxCap]

MaxResultsCap == 6   \* largest maxResults tried

\* what the call had done when the timeout fired: the matches collected,
\* the directories read, and the entry whose validation was awaited
NotAborted == [results |-> <<>>, reads |-> 0, entry |-> <<>>]

\* rootReadable tells whether fs.readdir of the root succeeds; reads counts
\* the fs.readdir calls made; cut tells whether a limit kept the call from
\* a directory or from entries of one
Idle == [status |-> "idle",
         query |-> [pattern |-> <<>>, excludePatterns |-> {}, maxResults |-> 0],
         rootReadable |-> TRUE,
         stack |-> <<>>, results |-> <<>>, aborted |-> FALSE, timedOut |-> FALSE,
         reads |-> 0, atAbort |-> NotAborted, cut |-> FALSE]

SearchInit == srch = Idle

\* searchFiles is called
StartSearch(query, rootReadable) ==
    /\ srch.status = "idle"
    /\ srch' = EnterSearch([Idle EXCEPT !.status = "running", !.query = query,
                                        !.rootReadable = rootReadable],
                           SearchRoot)
    /\ UNCHANGED <<pathVars, cacheVars, editVars, linesVars, toolVars, errVars, limVars, watcherVars>>

\* fs.readdir answers the innermost call, and a failure ends searchFiles
\* whichever directory it is
ReaddirDone_Propagates ==
    /\ srch.status = "running"
    /\ srch.stack # <<>>
    /\ Head(srch.stack).phase = "readdir"
    /\ LET f == Head(srch.stack)
       IN srch' = IF ~Readable(f.path) \/ (f.path = SearchRoot /\ ~srch.rootReadable)
                  THEN [srch EXCEPT !.stack = <<>>, !.status = "threw"]
                  ELSE LoopTop([srch EXCEPT !.stack =
                                  <<[f EXCEPT !.entries = Listing(f.path)]>> \o Tail(@)])
    /\ UNCHANGED <<pathVars, cacheVars, editVars, linesVars, toolVars, errVars, limVars, watcherVars>>

\* fs.readdir answers the innermost call: a failure is caught by the
\* caller's loop, or ends searchFiles when the root itself fails
ReaddirDone ==
    /\ srch.status = "running"
    /\ srch.stack # <<>>
    /\ Head(srch.stack).phase = "readdir"
    /\ LET f == Head(srch.stack)
       IN srch' = IF ~Readable(f.path) \/ (f.path = SearchRoot /\ ~srch.rootReadable)
                  THEN (IF Tail(srch.stack) = <<>>
                        THEN [srch EXCEPT !.stack = <<>>, !.status = "threw"]
                        ELSE LoopTop([srch EXCEPT !.stack = Tail(@)]))
                  ELSE LoopTop([srch EXCEPT !.stack =
                                  <<[f EXCEPT !.entries = Listing(f.path)]>> \o Tail(@)])
    /\ UNCHANGED <<pathVars, cacheVars, editVars, linesVars, toolVars, errVars, limVars, watcherVars>>

\* validatePath answers for the entry being processed; the rest of the
\* iteration follows
ValidateDone ==
    /\ srch.status = "running"
    /\ srch.stack # <<>>
    /\ Head(srch.stack).phase = "validate"
    /\ LET f == Head(srch.stack)
           entry == Head(f.entries)
           fullPath == Append(f.path, entry.name)
           s1 == [srch EXCEPT !.stack = <<[f EXCEPT !.entries = Tail(@)]>> \o Tail(@)]
           s2 == IF Includes(ToLowerCase(entry.name), ToLowerCase(srch.query.pattern))
                 THEN [s1 EXCEPT !.results = Append(@, fullPath)]
                 ELSE s1
       IN srch' = IF ~entry.valid THEN LoopTop(s1)
                  ELSE IF shouldExclude(SearchRoot, fullPath, srch.query.excludePatterns)
                       THEN LoopTop(s1)
                       ELSE IF isDirectory(entry) THEN EnterSearch(s2, fullPath)
                            ELSE LoopTop(s2)
    /\ UNCHANGED <<pathVars, cacheVars, editVars, linesVars, toolVars, errVars, limVars, watcherVars>>

\* the entry whose validatePath is awaited, <<>> when fs.readdir is awaited
\* or the call has returned
PendingEntry(s) ==
    IF s.stack # <<>> /\ Head(s.stack).phase = "validate"
    THEN Append(Head(s.stack).path, Head(Head(s.stack).entries).name)
    ELSE <<>>

\* the timeout fires
Timeout ==
    /\ srch.status = "running"
    /\ ~srch.timedOut
    /\ srch' = [srch EXCEPT !.timedOut = TRUE, !.aborted = TRUE,
                            !.atAbort = [results |-> srch.results,
                                         reads |-> srch.reads,
                                         entry |-> PendingEntry(srch)]]
    /\ UNCHANGED <<pathVars, cacheVars, editVars, linesVars, toolVars, errVars, limVars, watcherVars>>

\* the caller has taken the result
SearchReturned ==
    /\ srch.status \in {"done", "threw"}
    /\ srch' = Idle
    /\ UNCHANGED <<pathVars, cacheVars, editVars, linesVars, toolVars, errVars, limVars, watcherVars>>

SearchNext ==
    \/ \E query \in Queries(MaxResultsCap), rootReadable \in BOOLEAN :
          StartSearch(query, rootReadable)
    \/ ReaddirDone
    \/ ValidateDone
    \/ Timeout
    \/ SearchReturned

\* ---- claims about the search -----------------------------------------

\* C7: at every point during a searchFiles call, and in its return value,
\* the number of accumulated matches is at most maxResults.
C7_AtMostMaxResults ==
    srch.status # "idle" => Len(srch.results) <= srch.query.maxResults

\* a search that ran into its cap with entries still unvisited
C7_Witness ==
    /\ srch.status = "done"
    /\ ~srch.timedOut
    /\ srch.query.maxResults = 1
    /\ srch.query.pattern = <<"a">>
    /\ srch.query.excludePatterns = {}
    /\ Len(srch.results) = 1

\* since the timeout fired no directory was read and at most the entry
\* then awaited was added to the matches
StoppedAtAbort ==
    /\ srch.reads = srch.atAbort.reads
    /\ \/ srch.results = srch.atAbort.results
       \/ /\ srch.atAbort.entry # <<>>
          /\ srch.results = Append(srch.atAbort.results, srch.atAbort.entry)

\* C17 as stated: once the timeout has fired, searchFiles reads no further
\* directory and appends at most one more match, the entry that was being
\* processed, before it returns; it returns the accumulated matches
\* normally rather than throwing.
C17_TimeoutStopsSearch ==
    srch.timedOut => (StoppedAtAbort /\ srch.status # "threw")

\* C17 as amended: ... it returns the accumulated matches normally rather
\* than throwing, unless the read of the root directory, begun before the
\* timeout, fails.
C17_TimeoutStopsReadableSearch ==
    srch.timedOut => (StoppedAtAbort /\ (srch.rootReadable => srch.status # "threw"))

\* the timeout fired while an entry that matches was being validated, with
\* entries and a directory still to visit; the call returned with it
C17_Witness ==
    /\ srch.status = "done"
    /\ srch.timedOut
    /\ srch.atAbort.entry = SearchRoot \o <<<<"A", "b">>>>
    /\ srch.results = <<srch.atAbort.entry>>
    /\ srch.query.maxResults = 2

\* the entries below a directory of the searched tree, as full paths
RECURSIVE Below(_)
Below(path) ==
    UNION {{Append(path, Listing(path)[i].name)}
           \cup (IF Listing(path)[i].isDir
                 THEN Below(Append(path, Listing(path)[i].name)) ELSE {})
           : i \in 1..Len(Listing(path))}

\* the directory entry a full path stands for
EntryAt(fullPath) ==
    LET siblings == Listing(SubSeq(fullPath, 1, Len(fullPath) - 1))
    IN siblings[CHOOSE i \in 1..Len(siblings) :
                    siblings[i].name = fullPath[Len(fullPath)]]

\* an exclusion pattern excludes the entry at relative path rel: a bare name
\* wherever an entry of the tree bears it, a glob where it matches
Excludes(pattern, rel) ==
    IF \E i \in 1..Len(pattern) : Includes(pattern[i], <<"*">>)
    THEN GlobMatch(rel, pattern)
    ELSE rel # <<>> /\ SubSeq(rel, Len(rel) - Len(pattern) + 1, Len(rel)) = pattern

\* the entry passes validation and no exclusion pattern excludes it
Admitted(query, fullPath) ==
    /\ EntryAt(fullPath).valid
    /\ \A pattern \in query.excludePatterns :
           ~Excludes(pattern, Relative(SearchRoot, fullPath))

\* what a search that runs to its end is to return
Expected(query) ==
    {p \in Below(SearchRoot) :
        /\ Includes(ToLowerCase(p[Len(p)]), ToLowerCase(query.pattern))
        /\ \A k \in (Len(SearchRoot) + 1)..Len(p) : Admitted(query, SubSeq(p, 1, k))}

\* C18: when neither limit is reached, searchFiles returns exactly the
\* entries below the root whose name contains the pattern
\* case-insensitively, that pass validation and are not excluded, and that
\* are reachable from the root through directories that themselves pass
\* validation and are not excluded; nothing at or below an excluded
\* directory is returned and the root itself is never returned.
C18_ReturnsExactlyTheMatches ==
    (/\ srch.status = "done"
     /\ ~srch.timedOut
     /\ Len(srch.results) < srch.query.maxResults)
        => /\ {srch.results[i] : i \in 1..Len(srch.results)} = Expected(srch.query)
           /\ Cardinality(Expected(srch.query)) = Len(srch.results)

\* the directories of the tree, the root among them
DirCount ==
    1 + Cardinality({p \in Below(SearchRoot) : EntryAt(p).isDir})

\* C40: searchFiles terminates on every finite directory tree, including
\* trees that contain symbolic links pointing to an ancestor directory,
\* without relying on the timeout or the result cap: no directory is read
\* twice, and a call that waits for the file system is answered and goes on
\* until searchFiles has returned or thrown.
C40_SearchTerminates ==
    /\ [](srch.reads <= DirCount)
    /\ (srch.status = "running") ~> (srch.status \in {"done", "threw"})

\* a search with no cap in reach and no timeout came to its end past the
\* link to the root, every directory read once
C40_Witness ==
    /\ srch.status = "done"
    /\ ~srch.timedOut
    /\ ~srch.cut
    /\ srch.query.excludePatterns = {}
    /\ srch.query.maxResults = MaxResultsCap
    /\ EntryAt(LinkPath).target = SearchRoot
    /\ srch.reads = DirCount

\* the entry is taken up by the loop: validatePath accepts it and the
\* exclusion test of the loop lets it pass
TakenUp(query, fullPath) ==
    /\ EntryAt(fullPath).valid
    /\ ~shouldExclude(SearchRoot, fullPath, query.excludePatterns)

\* the matches of a search that skips every failing entry and goes on:
\* the entries with a matching name that are taken up, below directories
\* that are taken up (an unreadable directory has nothing below it)
MatchesPastFailures(query) ==
    {p \in Below(SearchRoot) :
        /\ Includes(ToLowerCase(p[Len(p)]), ToLowerCase(query.pattern))
        /\ \A k \in (Len(SearchRoot) + 1)..Len(p) : TakenUp(query, SubSeq(p, 1, k))}

\* C24: if validating one directory entry fails during a search, or reading
\* one subdirectory throws, that entry is skipped and the search continues
\* with its remaining siblings; the matches collected before the failure
\* and those found afterwards are all returned and the call does not fail.
C24_FailingEntriesAreSkipped ==
    /\ srch.rootReadable => srch.status # "threw"
    /\ \A i \in 1..Len(srch.results) : EntryAt(srch.results[i]).valid
    /\ (/\ srch.status = "done"
        /\ ~srch.timedOut
        /\ Len(srch.results) < srch.query.maxResults)
           => /\ {srch.results[i] : i \in 1..Len(srch.results)}
                    = MatchesPastFailures(srch.query)
              /\ Len(srch.results) = Cardinality(MatchesPastFailures(srch.query))

\* a search that met the entry failing validation and the unreadable
\* directory and returned the match that comes after both
C24_Witness ==
    /\ srch.status = "done"
    /\ ~srch.timedOut
    /\ srch.query.pattern = <<"a">>
    /\ srch.query.excludePatterns = {}
    /\ Len(srch.results) < srch.query.maxResults
    /\ srch.results[Len(srch.results)] = SearchRoot \o <<<<"a">>>>
    /\ \E i \in 1..Len(srch.results) : srch.results[i] = SearchRoot \o <<<<"a", "k">>>>

\* what searchFiles hands to its caller: return results
ReturnValue(s) == s.results

\* the value the search returns when it visits the whole tree: the
\* entries of a directory in their order, each followed by what is below it
RECURSIVE SearchAll(_, _, _)
SearchEntry(query, currentPath, entry) ==
    IF ~TakenUp(query, Append(currentPath, entry.name)) THEN <<>>
    ELSE (IF Includes(ToLowerCase(entry.name), ToLowerCase(query.pattern))
          THEN <<Append(currentPath, entry.name)>> ELSE <<>>)
         \o (IF entry.isDir
             THEN SearchAll(query, Append(currentPath, entry.name),
                            Listing(Append(currentPath, entry.name)))
             ELSE <<>>)

SearchAll(query, currentPath, entries) ==
    IF entries = <<>> THEN <<>>
    ELSE SearchEntry(query, currentPath, Head(entries))
         \o SearchAll(query, currentPath, Tail(entries))

\* C25: the result of a search tells its caller whether the search stopped
\* early because maxResults or the timeout was reached rather than because
\* the tree was exhausted: a search that a limit kept from part of the tree
\* does not return the value the same search returns on exhausting it.
C25_ResultTellsEarlyStop ==
    (srch.status = "done" /\ srch.cut)
        => ReturnValue(srch) # SearchAll(srch.query, SearchRoot, Listing(SearchRoot))

(***************************************************************************)
(* HEAD AND TAIL OF A FILE (src/cache/index.ts, tailFile and headFile).    *)
(* A file is a sequence of bytes holding UTF-8 text; both functions read   *)
(* it in chunks of ChunkSize bytes and decode each chunk on its own.       *)
(***************************************************************************)

\* the chunk of one read, in bytes: CHUNK_SIZE = 1024 in the source, scaled
\* down so that files of a few bytes span several chunks
ChunkSize == 2
MaxFileLen == 4
MaxNumLines == 3

\* the characters of a file: a letter, a character of two bytes, and the
\* two line-ending characters
TextChars == {"a", "E", NL, CR}

\* the character decoded from a byte sequence that is cut inside a
\* character (U+FFFD)
Replacement == "?"

\* the UTF-8 bytes of a text: "E" takes the two bytes E1 E2
RECURSIVE Encode(_)
Encode(text) ==
    IF text = <<>> THEN <<>>
    ELSE (IF Head(text) = "E" THEN <<"E1", "E2">> ELSE <<Head(text)>>)
         \o Encode(Tail(text))

\* Buffer.prototype.toString("utf-8"): a lead byte without its continuation
\* and a continuation byte without its lead each decode to U+FFFD
RECURSIVE Decode(_)
Decode(bytes) ==
    IF bytes = <<>> THEN <<>>
    ELSE IF Head(bytes) = "E1"
         THEN IF Len(bytes) >= 2 /\ bytes[2] = "E2"
              THEN <<"E">> \o Decode(SubSeq(bytes, 3, Len(bytes)))
              ELSE <<Replacement>> \o Decode(Tail(bytes))
    ELSE IF Head(bytes) = "E2" THEN <<Replacement>> \o Decode(Tail(bytes))
    ELSE <<Head(bytes)>> \o Decode(Tail(bytes))

\* fileHandle.read(chunk, 0, size, position) followed by
\* chunk.slice(0, bytesRead).toString("utf-8")
ReadChunk(bytes, position, size) ==
    Decode(SubSeq(bytes, position + 1, Min(position + size, Len(bytes))))

\* the last k elements of a sequence, all of it when it is shorter
TakeLast(seq, k) == SubSeq(seq, Len(seq) - Min(k, Len(seq)) + 1, Len(seq))

\* the first k elements of a sequence, all of it when it is shorter
TakeFirst(seq, k) == SubSeq(seq, 1, Min(k, Len(seq)))

\* String.prototype.lastIndexOf("\n"), 1-based; 0 when there is none
LastIndexOf(s, ch) ==
    LET hits == {i \in 1..Len(s) : s[i] = ch}
    IN IF hits = {} THEN 0 ELSE CHOOSE i \in hits : \A j \in hits : j <= i

\* tailFile's loop: one pass reads the chunk that ends at position, puts
\* the text kept from the chunk after it behind it, keeps the first line
\* for the next pass unless the chunk starts the file, and puts the lines
\* in front of those found, last first, until numLines are found
RECURSIVE TailLoop(_, _, _, _, _)
TailPass(bytes, numLines, position, lines, chunkLines, remainingText) ==
    TailLoop(bytes, numLines, position,
             TakeLast(IF position > 0 THEN Tail(chunkLines) ELSE chunkLines,
                      numLines - Len(lines)) \o lines,
             IF position > 0 THEN chunkLines[1] ELSE remainingText)

TailLoop(bytes, numLines, position, lines, remainingText) ==
    IF position > 0 /\ Len(lines) < numLines
    THEN TailPass(bytes, numLines, position - Min(ChunkSize, position), lines,
                  Split(normalizeLineEndings(
                      ReadChunk(bytes, position - Min(ChunkSize, position),
                                Min(ChunkSize, position)) \o remainingText)),
                  remainingText)
    ELSE Join(lines)

\* tailFile(filePath, numLines)
tailFile(bytes, numLines) ==
    IF Len(bytes) = 0 THEN <<>>
    ELSE TailLoop(bytes, numLines, Len(bytes), <<>>, <<>>)

\* headFile's loop: one pass appends the next chunk to the buffer and, when
\* the buffer holds a line ending, moves the complete lines out of it until
\* numLines are found; what is left in the buffer at the end of the file is
\* the last line
RECURSIVE HeadLoop(_, _, _, _, _)
HeadPass(bytes, numLines, bytesRead, lines, buffer, newLineIndex) ==
    IF newLineIndex # 0
    THEN HeadLoop(bytes, numLines, bytesRead,
                  lines \o TakeFirst(Split(SubSeq(buffer, 1, newLineIndex - 1)),
                                     numLines - Len(lines)),
                  SubSeq(buffer, newLineIndex + 1, Len(buffer)))
    ELSE HeadLoop(bytes, numLines, bytesRead, lines, buffer)

HeadRead(bytes, numLines, bytesRead, lines, buffer) ==
    HeadPass(bytes, numLines, Min(bytesRead + ChunkSize, Len(bytes)), lines,
             buffer, LastIndexOf(buffer, NL))

HeadLoop(bytes, numLines, bytesRead, lines, buffer) ==
    IF Len(lines) < numLines /\ bytesRead < Len(bytes)
    THEN HeadRead(bytes, numLines, bytesRead, lines,
                  buffer \o ReadChunk(bytes, bytesRead, ChunkSize))
    ELSE IF Len(buffer) > 0 /\ Len(lines) < numLines
         THEN Join(Append(lines, buffer))
         ELSE Join(lines)

\* headFile(filePath, numLines)
headFile(bytes, numLines) == HeadLoop(bytes, numLines, 0, <<>>, <<>>)

Texts == UNION {[1..n -> TextChars] : n \in 0..MaxFileLen}

NoLines == [fn |-> "none", numLines |-> 0, ret |-> <<>>]

LinesInit ==
    /\ disk \in {Encode(text) : text \in Texts}
    /\ linesCall = NoLines

\* a call of tailFile on the file
TailFile(numLines) ==
    /\ linesCall' = [fn |-> "tailFile", numLines |-> numLines,
                     ret |-> tailFile(disk, numLines)]
    /\ UNCHANGED <<disk, pathVars, cacheVars, editVars, searchVars, toolVars, errVars, limVars, watcherVars>>

\* a call of headFile on the file
HeadFile(numLines) ==
    /\ linesCall' = [fn |-> "headFile", numLines |-> numLines,
                     ret |-> headFile(disk, numLines)]
    /\ UNCHANGED <<disk, pathVars, cacheVars, editVars, searchVars, toolVars, errVars, limVars, watcherVars>>

LinesNext ==
    \/ \E numLines \in 0..MaxNumLines : TailFile(numLines)
    \/ \E numLines \in 0..MaxNumLines : HeadFile(numLines)

\* the text of the file
FileText == Decode(disk)

\* the lines of a text: what stands between its line endings, an
\* unterminated last line included
LinesOf(text) ==
    IF text = <<>> THEN <<>>
    ELSE IF text[Len(text)] = NL THEN Split(SubSeq(text, 1, Len(text) - 1))
    ELSE Split(text)

\* C19: for every file and every n at least the number of lines of the
\* file (newline-terminated lines, plus one for an unterminated last
\* line), tailFile(path, n) returns the entire file content, including for
\* files that end with a newline.
C19_TailOfWholeFile ==
    (/\ linesCall.fn = "tailFile"
     /\ linesCall.numLines >= Len(LinesOf(FileText)))
        => linesCall.ret = FileText

\* C20: for every file and every n >= 0, the lines returned by
\* headFile(path, n) are exactly the first min(n, L) lines of the file, L
\* its number of lines, so that the output followed by the remaining lines
\* reconstructs the file line for line; also when lines straddle the read
\* chunks and when one chunk holds more complete lines than are needed.
C20_HeadIsFirstLines ==
    linesCall.fn = "headFile"
        => linesCall.ret = Join(TakeFirst(LinesOf(FileText), linesCall.numLines))

\* C36: tailFile's result equals the last n elements of the whole
\* line-ending-normalized file content split on newline, joined by newline,
\* independently of where the backward chunk boundaries fall relative to
\* line boundaries: the partial first line of each chunk is glued to the
\* earlier chunk and is never lost, duplicated or counted twice.
C36_TailIsLastElements ==
    linesCall.fn = "tailFile"
        => linesCall.ret =
              Join(TakeLast(Split(normalizeLineEndings(FileText)), linesCall.numLines))

(***************************************************************************)
(* TOOL HANDLERS (server entry point, the CallTool request handler).       *)
(* The handlers work on the files the cache component knows: a file is     *)
(* there or not and has a version, its mtime, which determines its bytes.  *)
(* A handler validates its paths, calls the file system and answers with   *)
(* a text; every error thrown inside it is caught and answered as an       *)
(* error result.                                                           *)
(***************************************************************************)

\* a path validatePath of the entry point rejects
Outside == "z"
ToolPaths == Paths \cup {Outside}

\* validatePath(path) of the entry point returns rather than throws
ValidPath(p) == p \in Paths

\* an optional number of a zod schema: {} when the argument is not given
Optional(values) == {{}} \cup {{n} : n \in values}

\* the argument is given
Supplied(opt) == opt # {}

\* the truth value JavaScript gives an optional number: undefined and 0
\* are false
Truthy(opt) == \E n \in opt : n # 0

ValueOf(opt) == CHOOSE n \in opt : TRUE

MaxHeadTail == 1     \* largest head or tail tried
MaxBatch == 2        \* longest list of paths of read_multiple_files
MaxToolOps == 3      \* tool calls, sets and file events followed

NoArgs == [path |-> NoKey, destination |-> NoKey, paths |-> <<>>,
           head |-> {}, tail |-> {}, matches |-> FALSE, dryRun |-> FALSE]

\* the answer of a handler: a text, or the error it caught
Answer(text) == [isError |-> FALSE, error |-> "none", text |-> text, results |-> <<>>]
ErrorAnswer(kind) == [isError |-> TRUE, error |-> kind, text |-> <<>>, results |-> <<>>]

\* fs.readFile(validPath, "utf-8")
FileContent(f, p) == FileData(f[p].mtime)

\* case "read_file"
readFileTool(f, args) ==
    IF ~ValidPath(args.path) THEN ErrorAnswer("path")
    ELSE IF Truthy(args.head) /\ Truthy(args.tail) THEN ErrorAnswer("arguments")
    ELSE IF ~f[args.path].exists THEN ErrorAnswer("io")
    ELSE IF Truthy(args.tail)
         THEN Answer(tailFile(Encode(FileContent(f, args.path)), ValueOf(args.tail)))
    ELSE IF Truthy(args.head)
         THEN Answer(headFile(Encode(FileContent(f, args.path)), ValueOf(args.head)))
    ELSE Answer(FileContent(f, args.path))

\* the callback of paths.map in read_multiple_files: the content under the
\* name of the file, or the error caught for it
ReadOne(f, filePath) ==
    IF ValidPath(filePath) /\ f[filePath].exists
    THEN <<filePath, ":", NL>> \o FileContent(f, filePath) \o <<NL>>
    ELSE <<filePath, ":", SP, "Error">>

\* Array.prototype.join("\n---\n")
RECURSIVE JoinResults(_)
JoinResults(results) ==
    IF results = <<>> THEN <<>>
    ELSE IF Len(results) = 1 THEN results[1]
    ELSE results[1] \o <<NL, "-", "-", "-", NL>> \o JoinResults(Tail(results))

\* case "read_multiple_files" in which the first failing read fails the call
readMultipleFilesTool_FailsWhole(f, args) ==
    IF \E i \in 1..Len(args.paths) :
           ~(ValidPath(args.paths[i]) /\ f[args.paths[i]].exists)
    THEN ErrorAnswer("io")
    ELSE [isError |-> FALSE, error |-> "none",
          results |-> [i \in 1..Len(args.paths) |-> ReadOne(f, args.paths[i])],
          text |-> JoinResults([i \in 1..Len(args.paths) |-> ReadOne(f, args.paths[i])])]

\* case "read_multiple_files"
readMultipleFilesTool(f, args) ==
    [isError |-> FALSE, error |-> "none",
     results |-> [i \in 1..Len(args.paths) |-> ReadOne(f, args.paths[i])],
     text |-> JoinResults([i \in 1..Len(args.paths) |-> ReadOne(f, args.paths[i])])]

\* fs.writeFile: the file is there in a new version
Written(f, p) == [f EXCEPT ![p] = [exists |-> TRUE, mtime |-> @.mtime + 1]]

\* fs.rename(source, destination): the source takes the place of the
\* destination, which is replaced when it exists
Renamed(f, source, destination) ==
    IF source = destination THEN f
    ELSE [f EXCEPT ![destination] = f[source], ![source].exists = FALSE]

\* the files a handler leaves and its answer
Outcome(f, answer) == [files |-> f, answer |-> answer]

\* case "write_file"
writeFileTool(f, args) ==
    IF ~ValidPath(args.path) THEN Outcome(f, ErrorAnswer("path"))
    ELSE Outcome(Written(f, args.path), Answer(<<"wrote">>))

\* case "edit_file": applyFileEdits reads the file, fails when an edit
\* does not match, and writes the result unless dryRun; matches stands
\* for the edits all finding their text
editFileTool(f, args) ==
    IF ~ValidPath(args.path) THEN Outcome(f, ErrorAnswer("path"))
    ELSE IF ~f[args.path].exists THEN Outcome(f, ErrorAnswer("io"))
    ELSE IF ~args.matches THEN Outcome(f, ErrorAnswer("edit"))
    ELSE IF args.dryRun THEN Outcome(f, Answer(<<"diff">>))
    ELSE Outcome(Written(f, args.path), Answer(<<"diff">>))

\* case "move_file"
moveFileTool(f, args) ==
    IF ~ValidPath(args.source) \/ ~ValidPath(args.destination)
    THEN Outcome(f, ErrorAnswer("path"))
    ELSE IF ~f[args.source].exists THEN Outcome(f, ErrorAnswer("io"))
    ELSE Outcome(Renamed(f, args.source, args.destination), Answer(<<"moved">>))

\* the record of a tool call: its name and arguments, the files before it,
\* its answer and the count of operations when it returned
NoTool == [name |-> "none", args |-> NoArgs, before |-> <<>>,
           answer |-> Answer(<<>>), at |-> 0]

\* the record of a handler that has run
Called(name, args, before, answer, at) ==
    [name |-> name, args |-> args, before |-> before, answer |-> answer, at |-> at]

ReadFileTool(p, head, tail) ==
    /\ ops < MaxToolOps
    /\ ops' = ops + 1
    /\ tool' = Called("read_file",
                      [NoArgs EXCEPT !.path = p, !.head = head, !.tail = tail], files,
                      readFileTool(files, [path |-> p, head |-> head, tail |-> tail]),
                      ops + 1)
    /\ UNCHANGED <<files, fc, now, last, prev, hist, reads,
                   pathVars, editVars, searchVars, linesVars, errVars, limVars, watcherVars>>

ReadMultipleFilesTool(paths) ==
    /\ ops < MaxToolOps
    /\ ops' = ops + 1
    /\ tool' = Called("read_multiple_files", [NoArgs EXCEPT !.paths = paths], files,
                      readMultipleFilesTool(files, [paths |-> paths]), ops + 1)
    /\ UNCHANGED <<files, fc, now, last, prev, hist, reads,
                   pathVars, editVars, searchVars, linesVars, errVars, limVars, watcherVars>>

WriteFileTool(p) ==
    /\ ops < MaxToolOps
    /\ ops' = ops + 1
    /\ \E r \in {writeFileTool(files, [path |-> p])} :
          /\ files' = r.files
          /\ tool' = Called("write_file", [NoArgs EXCEPT !.path = p], files,
                            r.answer, ops + 1)
    /\ UNCHANGED <<fc, now, last, prev, hist, reads,
                   pathVars, editVars, searchVars, linesVars, errVars, limVars, watcherVars>>

EditFileTool(p, matches, dryRun) ==
    /\ ops < MaxToolOps
    /\ ops' = ops + 1
    /\ \E r \in {editFileTool(files, [path |-> p, matches |-> matches,
                                      dryRun |-> dryRun])} :
          /\ files' = r.files
          /\ tool' = Called("edit_file",
                            [NoArgs EXCEPT !.path = p, !.matches = matches,
                                           !.dryRun = dryRun],
                            files, r.answer, ops + 1)
    /\ UNCHANGED <<fc, now, last, prev, hist, reads,
                   pathVars, editVars, searchVars, linesVars, errVars, limVars, watcherVars>>

MoveFileTool(source, destination) ==
    /\ ops < MaxToolOps
    /\ ops' = ops + 1
    /\ \E r \in {moveFileTool(files, [source |-> source,
                                      destination |-> destination])} :
          /\ files' = r.files
          /\ tool' = Called("move_file",
                            [NoArgs EXCEPT !.path = source,
                                           !.destination = destination],
                            files, r.answer, ops + 1)
    /\ UNCHANGED <<fc, now, last, prev, hist, reads,
                   pathVars, editVars, searchVars, linesVars, errVars, limVars, watcherVars>>

BatchPaths == UNION {[1..n -> ToolPaths] : n \in 0..MaxBatch}

\* the tool calls, the cache filled by set, and files removed outside
ToolsNext ==
    \/ \E p \in ToolPaths, head \in Optional(0..MaxHeadTail),
          tail \in Optional(0..MaxHeadTail) : ReadFileTool(p, head, tail)
    \/ \E paths \in BatchPaths : ReadMultipleFilesTool(paths)
    \/ \E p \in ToolPaths : WriteFileTool(p)
    \/ \E p \in ToolPaths, matches \in BOOLEAN, dryRun \in BOOLEAN :
          EditFileTool(p, matches, dryRun)
    \/ \E source \in ToolPaths, destination \in ToolPaths :
          MoveFileTool(source, destination)
    \/ \E p \in Paths, content \in Contents : ops < MaxToolOps /\ Set(p, content)
    \/ \E p \in Paths : ops < MaxToolOps /\ RemoveFile(p)

\* C26: a read_file request that supplies both a head and a tail argument,
\* whatever their numeric values (0 included), is rejected with an argument
\* error and returns no file content.
C26_HeadAndTailRejected ==
    (/\ tool.name = "read_file"
     /\ ValidPath(tool.args.path)
     /\ Supplied(tool.args.head)
     /\ Supplied(tool.args.tail))
        => tool.answer = ErrorAnswer("arguments")

\* the file at a path could be read when the call was made
CouldRead(f, p) == ValidPath(p) /\ f[p].exists

\* C27: read_multiple_files returns one result per requested path, in
\* request order; a path that fails validation or reading yields an error
\* line for that path only, the results for all other paths are still
\* returned, and the batch never fails as a whole.
C27_BatchReportsPerFile ==
    tool.name = "read_multiple_files"
        => /\ ~tool.answer.isError
           /\ Len(tool.answer.results) = Len(tool.args.paths)
           /\ \A i \in 1..Len(tool.args.paths) :
                 /\ tool.answer.results[i][1] = tool.args.paths[i]
                 /\ IF CouldRead(tool.before, tool.args.paths[i])
                    THEN tool.answer.results[i]
                            = <<tool.args.paths[i], ":", NL>>
                              \o FileData(tool.before[tool.args.paths[i]].mtime)
                              \o <<NL>>
                    ELSE SubSeq(tool.answer.results[i], 2, 4) = <<":", SP, "Error">>
           /\ tool.answer.text = JoinResults(tool.answer.results)

\* a batch whose first path cannot be read and whose second can
C27_Witness ==
    /\ tool.name = "read_multiple_files"
    /\ Len(tool.args.paths) = 2
    /\ ~CouldRead(tool.before, tool.args.paths[1])
    /\ CouldRead(tool.before, tool.args.paths[2])
    /\ ~tool.answer.isError

\* C28: move_file fails when the destination already exists, and in that
\* case leaves both the source and the existing destination unchanged.
C28_MoveOntoExistingFails ==
    (/\ tool.name = "move_file"
     /\ tool.at = ops
     /\ ValidPath(tool.args.path)
     /\ ValidPath(tool.args.destination)
     /\ tool.before[tool.args.path].exists
     /\ tool.before[tool.args.destination].exists)
        => /\ tool.answer.isError
           /\ files = tool.before

\* C29: after a successful write_file, non-dry-run edit_file or move_file
\* on a path, the FileCache holds no content entry and no metadata entry
\* for that path until the next set for it.
C29_WritesInvalidate ==
    (/\ tool.at = ops
     /\ ~tool.answer.isError
     /\ \/ tool.name \in {"write_file", "move_file"}
        \/ tool.name = "edit_file" /\ ~tool.args.dryRun)
        => \A p \in {tool.args.path, tool.args.destination} \cap Paths :
              /\ ~Cached(fc, p)
              /\ ~fc.metadataCache[p].present

(***************************************************************************)
(* ERRORS: FileSystemError, its subclasses and the responses made of one.  *)
(* A text is a sequence of tokens; an optional value that is not given is  *)
(* the empty set, an undefined text the empty sequence.                    *)
(***************************************************************************)

Undefined == "undefined"

\* what the constructors are called with
NoErrArgs == [operation |-> "", reason |-> "", number |-> "",
              internal |-> {}, other |-> {}]

\* new FileSystemError(message, code, options) thrown at a call site: the
\* stack names the class, the message and the site, and the cause if any
FileSystemError(name, message, code, details, suggestion, internalMessage, cause, site) ==
    [name |-> name, code |-> code, message |-> message, details |-> details,
     suggestion |-> suggestion, internalMessage |-> internalMessage,
     stack |-> <<name, ":">> \o message \o <<"at", site>>
               \o (IF cause = {} THEN <<>>
                   ELSE <<"Caused by:", CHOOSE c \in cause : TRUE>>)]

\* internalPath ? prefix + internalPath : undefined
InternalMessage(prefix, internal) ==
    IF internal = {} THEN <<>> ELSE <<prefix, CHOOSE p \in internal : TRUE>>

PermissionDeniedError(args, site) ==
    FileSystemError("PermissionDeniedError",
        <<"Permission denied: Cannot", args.operation, "the specified path">>,
        "PERMISSION_DENIED", <<<<"operation", args.operation>>>>,
        <<"Ensure the path is within allowed directories">>,
        InternalMessage("Access denied for:", args.internal), {}, site)

FileNotFoundError(args, site) ==
    FileSystemError("FileNotFoundError",
        <<"The specified file or directory does not exist">>,
        "FILE_NOT_FOUND", <<<<"path", "requested path">>>>,
        <<"Check the path spelling">>,
        InternalMessage("File not found:", args.internal), {}, site)

InvalidPathError(args, site) ==
    FileSystemError("InvalidPathError", <<"Invalid path:", args.reason>>,
        "INVALID_PATH", <<<<"reason", args.reason>>>>,
        <<"Ensure the path is properly formatted">>,
        InternalMessage("Invalid path:", args.internal), {}, site)

OperationTimeoutError(args, site) ==
    FileSystemError("OperationTimeoutError",
        <<"Operation timed out:", args.operation>>, "OPERATION_TIMEOUT",
        <<<<"operation", args.operation>>, <<"timeoutMs", args.number>>>>,
        <<"The operation took longer than", args.number, "ms">>,
        IF args.internal = {} THEN <<>> ELSE <<CHOOSE d \in args.internal : TRUE>>,
        {}, site)

RateLimitExceededError(args, site) ==
    FileSystemError("RateLimitExceededError", <<"Rate limit exceeded">>,
        "RATE_LIMIT_EXCEEDED",
        <<<<"limit", args.number>>,
          <<"retryAfter", IF args.other = {} THEN Undefined
                          ELSE CHOOSE n \in args.other : TRUE>>>>,
        IF args.other = {} THEN <<"Please slow down your requests">>
        ELSE <<"Wait", CHOOSE n \in args.other : TRUE, "seconds before retrying">>,
        <<>>, {}, site)

InvalidArgumentError(args, site) ==
    FileSystemError("InvalidArgumentError",
        <<"Invalid argument:", args.operation, "-", args.reason>>, "INVALID_ARGUMENT",
        <<<<"argumentName", args.operation>>, <<"reason", args.reason>>,
          <<"received", IF args.other = {} THEN Undefined ELSE "string">>>>,
        <<"Check the API documentation">>, <<>>, {}, site)

FileAlreadyExistsError(args, site) ==
    FileSystemError("FileAlreadyExistsError",
        <<"A file or directory already exists at the specified path">>,
        "FILE_ALREADY_EXISTS", <<<<"path", "target path">>>>,
        <<"Choose a different path">>,
        InternalMessage("File exists:", args.internal), {}, site)

OperationFailedError(args, site) ==
    FileSystemError("OperationFailedError", <<"Operation failed:", args.operation>>,
        "OPERATION_FAILED",
        <<<<"operation", args.operation>>, <<"reason", args.reason>>>>,
        <<"Check the logs for more details">>,
        IF args.internal = {} THEN <<>> ELSE <<CHOOSE d \in args.internal : TRUE>>,
        args.other, site)

InvalidParamsError(args, site) ==
    FileSystemError("InvalidParamsError", <<"Invalid parameters:", args.reason>>,
        "INVALID_PARAMS",
        IF args.other = {} THEN <<>> ELSE <<<<"field", CHOOSE d \in args.other : TRUE>>>>,
        <<"Verify all required parameters">>, <<>>, {}, site)

ErrorClasses ==
    {"PermissionDeniedError", "FileNotFoundError", "InvalidPathError",
     "OperationTimeoutError", "RateLimitExceededError", "InvalidArgumentError",
     "FileAlreadyExistsError", "OperationFailedError", "InvalidParamsError"}

\* new cls(...) at a call site
Construct(cls, args, site) ==
    CASE cls = "PermissionDeniedError"  -> PermissionDeniedError(args, site)
      [] cls = "FileNotFoundError"      -> FileNotFoundError(args, site)
      [] cls = "InvalidPathError"       -> InvalidPathError(args, site)
      [] cls = "OperationTimeoutError"  -> OperationTimeoutError(args, site)
      [] cls = "RateLimitExceededError" -> RateLimitExceededError(args, site)
      [] cls = "InvalidArgumentError"   -> InvalidArgumentError(args, site)
      [] cls = "FileAlreadyExistsError" -> FileAlreadyExistsError(args, site)
      [] cls = "OperationFailedError"   -> OperationFailedError(args, site)
      [] cls = "InvalidParamsError"     -> InvalidParamsError(args, site)

\* toClientResponse that hands out what toLogDetails does
toClientResponse_Logs(e) ==
    [code |-> e.code, message |-> e.message, details |-> e.details,
     suggestion |-> e.suggestion, internalMessage |-> e.internalMessage,
     stack |-> e.stack]

\* FileSystemError.toClientResponse()
toClientResponse(e) ==
    [code |-> e.code, message |-> e.message, details |-> e.details,
     suggestion |-> e.suggestion]

\* FileSystemError.toLogDetails()
toLogDetails(e) ==
    [code |-> e.code, message |-> e.message, details |-> e.details,
     suggestion |-> e.suggestion, internalMessage |-> e.internalMessage,
     stack |-> e.stack]

\* JSON.stringify(details, null, 2): the members whose value is defined
RECURSIVE JsonMembers(_)
JsonMembers(details) ==
    IF details = <<>> THEN <<>>
    ELSE (IF Head(details)[2] = Undefined THEN <<>>
          ELSE <<Head(details)[1], ":", Head(details)[2]>>)
         \o JsonMembers(Tail(details))

JsonStringify(details) == <<"{">> \o JsonMembers(details) \o <<"}">>

\* toMcpErrorResponse(error), the text of its content
McpText(clientError) ==
    <<"Error:">> \o clientError.message
    \o (IF clientError.suggestion # <<>>
        THEN <<NL, NL, "Suggestion:">> \o clientError.suggestion ELSE <<>>)
    \o (IF clientError.details # <<>>
        THEN <<NL, NL, "Details:">> \o JsonStringify(clientError.details) ELSE <<>>)

toMcpErrorResponse(e) ==
    [isError |-> TRUE, text |-> McpText(toClientResponse(e))]

InternalTexts == {"/srv/data/a", "/srv/data/b"}
ErrOperations == {"access", "read"}
ErrReasons == {"outside allowed directories", "null byte"}
CallSites == {"validatePath", "handler"}

Internals == {{}} \cup {{t} : t \in InternalTexts}

ErrArgs ==
    [operation : ErrOperations, reason : ErrReasons, number : {"30"},
     internal : Internals,
     other : {{}, {"7"}}]

NoError == [thrown |-> FALSE, cls |-> "", args |-> NoErrArgs, site |-> "",
            made |-> {},
            client |-> [code |-> "", message |-> <<>>, details |-> <<>>,
                        suggestion |-> <<>>],
            text |-> <<>>,
            log |-> [code |-> "", message |-> <<>>, details |-> <<>>,
                     suggestion |-> <<>>, internalMessage |-> <<>>, stack |-> <<>>]]

ErrInit == err = NoError

\* an operation throws an error of a class
Throw(cls, args, site) ==
    /\ err' = [NoError EXCEPT !.thrown = TRUE, !.cls = cls, !.args = args,
                              !.site = site]
    /\ UNCHANGED <<pathVars, cacheVars, editVars, searchVars, linesVars, toolVars, limVars, watcherVars>>

\* error.toClientResponse()
ToClientResponse ==
    /\ err.thrown
    /\ "client" \notin err.made
    /\ err' = [err EXCEPT !.made = @ \cup {"client"},
                          !.client = toClientResponse(Construct(err.cls, err.args, err.site))]
    /\ UNCHANGED <<pathVars, cacheVars, editVars, searchVars, linesVars, toolVars, limVars, watcherVars>>

\* toMcpErrorResponse(error)
ToMcpErrorResponse ==
    /\ err.thrown
    /\ "mcp" \notin err.made
    /\ err' = [err EXCEPT !.made = @ \cup {"mcp"},
                          !.text = toMcpErrorResponse(
                                       Construct(err.cls, err.args, err.site)).text]
    /\ UNCHANGED <<pathVars, cacheVars, editVars, searchVars, linesVars, toolVars, limVars, watcherVars>>

\* error.toLogDetails()
ToLogDetails ==
    /\ err.thrown
    /\ "log" \notin err.made
    /\ err' = [err EXCEPT !.made = @ \cup {"log"},
                          !.log = toLogDetails(Construct(err.cls, err.args, err.site))]
    /\ UNCHANGED <<pathVars, cacheVars, editVars, searchVars, linesVars, toolVars, limVars, watcherVars>>

ErrNext ==
    \/ \E cls \in ErrorClasses, args \in ErrArgs, site \in CallSites :
          Throw(cls, args, site)
    \/ ToClientResponse
    \/ ToMcpErrorResponse
    \/ ToLogDetails

\* the error thrown
Thrown == Construct(err.cls, err.args, err.site)

\* the text holds the tokens of part one after the other
Contains(text, part) == part # <<>> /\ Includes(text, part)

\* the texts a client response is made of
ClientTexts(client) ==
    {client.message, client.suggestion}
    \cup {client.details[i] : i \in 1..Len(client.details)}

\* the response shows nothing internal: no field internalMessage or stack,
\* and in no text the internal message, the stack or an internal text
ClientSafe(e, client) ==
    /\ DOMAIN client \cap {"internalMessage", "stack"} = {}
    /\ \A t \in ClientTexts(client) :
          /\ ~Contains(t, e.internalMessage)
          /\ ~Contains(t, e.stack)
          /\ \A i \in 1..Len(t) : t[i] \notin InternalTexts

TextSafe(e, text) ==
    /\ ~Contains(text, e.internalMessage)
    /\ ~Contains(text, e.stack)
    /\ \A i \in 1..Len(text) : text[i] \notin InternalTexts

\* C30: for every FileSystemError, toClientResponse and the text built from
\* it by toMcpErrorResponse contain neither internalMessage nor the stack,
\* and they are identical for two errors that differ only in their internal
\* path argument.
C30_ClientResponseHidesInternals ==
    /\ "client" \in err.made
          => /\ ClientSafe(Thrown, err.client)
             /\ \A internal \in Internals, site \in CallSites :
                   toClientResponse(Construct(err.cls,
                       [err.args EXCEPT !.internal = internal], site)) = err.client
    /\ "mcp" \in err.made
          => /\ TextSafe(Thrown, err.text)
             /\ \A internal \in Internals, site \in CallSites :
                   toMcpErrorResponse(Construct(err.cls,
                       [err.args EXCEPT !.internal = internal], site)).text = err.text

\* an error that carries an internal path has been turned into both
\* responses and logged with the path
C30_Witness ==
    /\ err.cls = "PermissionDeniedError"
    /\ err.args.internal # {}
    /\ err.made = {"client", "mcp", "log"}
    /\ Contains(err.log.internalMessage, <<CHOOSE p \in err.args.internal : TRUE>>)

(***************************************************************************)
(* CONCURRENT REQUEST LIMITER: createConcurrentRequestLimiter and the       *)
(* events of the responses it listens to.                                  *)
(***************************************************************************)

MaxConcurrent == 2
MaxRequests == 4
ClientIps == {"ip1", "ip2"}
RequestPaths == {"/mcp", "/health"}

\* a response emits 'finish' when it has been sent, 'error' when writing it
\* failed, and 'close' last of all
ResponseEvents == {"finish", "error", "close"}

NoRequest == [ip |-> "", path |-> "", status |-> "new", events |-> {}]

LimInit ==
    lim = [concurrentRequestsMap |-> [ip \in ClientIps |-> 0],
           requests |-> [r \in 1..MaxRequests |-> NoRequest],
           arrived |-> 0]

\* concurrentRequestsMap.get(ip) || 0
Current(l, ip) == l.concurrentRequestsMap[ip]

\* cleanup, the listener of 'finish', 'close' and 'error'
cleanup(l, ip) ==
    IF Current(l, ip) > 0
    THEN [l EXCEPT !.concurrentRequestsMap[ip] = @ - 1]
    ELSE l

\* the middleware runs for a request
Arrive(ip, path) ==
    /\ lim.arrived < MaxRequests
    /\ \E r \in {lim.arrived + 1} :
          lim' = IF path = "/health"
                 THEN [lim EXCEPT !.arrived = r,
                          !.requests[r] = [ip |-> ip, path |-> path,
                                           status |-> "passed", events |-> {}]]
                 ELSE IF Current(lim, ip) >= MaxConcurrent
                 THEN [lim EXCEPT !.arrived = r,
                          !.requests[r] = [ip |-> ip, path |-> path,
                                           status |-> "rejected", events |-> {}]]
                 ELSE [lim EXCEPT !.arrived = r,
                          !.concurrentRequestsMap[ip] = @ + 1,
                          !.requests[r] = [ip |-> ip, path |-> path,
                                           status |-> "admitted", events |-> {}]]
    /\ UNCHANGED <<pathVars, cacheVars, editVars, searchVars, linesVars, toolVars, errVars, watcherVars>>

\* the response of an admitted request emits 'finish'
Finish(r) ==
    /\ lim.requests[r].status = "admitted"
    /\ lim.requests[r].events = {}
    /\ lim' = [cleanup(lim, lim.requests[r].ip)
                  EXCEPT !.requests[r].events = @ \cup {"finish"}]
    /\ UNCHANGED <<pathVars, cacheVars, editVars, searchVars, linesVars, toolVars, errVars, watcherVars>>

\* the response of an admitted request emits 'error'
ResponseError(r) ==
    /\ lim.requests[r].status = "admitted"
    /\ lim.requests[r].events = {}
    /\ lim' = [cleanup(lim, lim.requests[r].ip)
                  EXCEPT !.requests[r].events = @ \cup {"error"}]
    /\ UNCHANGED <<pathVars, cacheVars, editVars, searchVars, linesVars, toolVars, errVars, watcherVars>>

\* the response of an admitted request emits 'close': after 'finish', after
\* 'error', or alone when the connection is lost before the response is sent
Close(r) ==
    /\ lim.requests[r].status = "admitted"
    /\ "close" \notin lim.requests[r].events
    /\ lim' = [cleanup(lim, lim.requests[r].ip)
                  EXCEPT !.requests[r].events = @ \cup {"close"}]
    /\ UNCHANGED <<pathVars, cacheVars, editVars, searchVars, linesVars, toolVars, errVars, watcherVars>>

LimNext ==
    \/ \E ip \in ClientIps, path \in RequestPaths : Arrive(ip, path)
    \/ \E r \in 1..MaxRequests : Finish(r)
    \/ \E r \in 1..MaxRequests : ResponseError(r)
    \/ \E r \in 1..MaxRequests : Close(r)

\* the requests of a client the limiter admitted whose response has emitted
\* none of 'finish', 'close' and 'error'
NotCompleted(ip) ==
    {r \in 1..MaxRequests : /\ lim.requests[r].status = "admitted"
                            /\ lim.requests[r].ip = ip
                            /\ lim.requests[r].events = {}}

\* C32: for every client IP, the number of requests admitted by the
\* concurrent-request limiter and not yet completed never exceeds
\* maxConcurrent, under any interleaving of arrivals and of the finish,
\* close and error events of the responses.
C32_AtMostMaxConcurrent ==
    \A ip \in ClientIps : Cardinality(NotCompleted(ip)) <= MaxConcurrent

(***************************************************************************)
(* CONFIG WATCHER: ConfigWatcher, the debounce timer and the reloads.       *)
(* Time is counted in ticks; a timer is known by the time it is due.  A     *)
(* reload attempt is the callback of the timer: it starts when the timer    *)
(* fires, waits for the file to be read and then runs to its end.           *)
(***************************************************************************)

\* debounceDelay = 1000 ms in the source, in ticks here
DebounceDelay == 2
MaxWatcherTime == 5
MaxChanges == 3

\* what the config file can hold: a directory written relative to the
\* working directory, the same one written in full, another one, and a
\* content that does not pass the schema
ConfigFiles ==
    {[valid |-> TRUE, dir |-> "data"], [valid |-> TRUE, dir |-> "/cwd/data"],
     [valid |-> TRUE, dir |-> "/srv"], [valid |-> FALSE, dir |-> ""]}

\* normalizePaths: path.resolve of the directories
normalizePaths(config) ==
    [dir |-> IF config.dir = "data" THEN "/cwd/data" ELSE config.dir]

InitialFile == [valid |-> TRUE, dir |-> "data"]

\* new ConfigWatcher(configPath, initialConfig), the file as it was loaded
WatcherInit ==
    cw = [watcher |-> FALSE, closing |-> FALSE,
          currentConfig |-> normalizePaths(InitialFile),
          debounceTimer |-> 0, timers |-> {},
          file |-> InitialFile, now |-> 1,
          attempts |-> <<>>, emitted |-> <<>>, errors |-> 0,
          changes |-> 0, lastChange |-> 0, burstAttempts |-> 0, lastStart |-> 0,
          stopCalled |-> FALSE,
          atStop |-> [emitted |-> 0, currentConfig |-> normalizePaths(InitialFile)],
          latestValid |-> InitialFile, overlapped |-> FALSE]

\* clearTimeout(handle)
clearTimeout(timers, handle) == timers \ {handle}

\* handleConfigChange that leaves the timer of the event before running
handleConfigChange_KeepsTimer(c, t) ==
    [c EXCEPT !.timers = @ \cup {t + DebounceDelay},
              !.debounceTimer = t + DebounceDelay]

\* handleConfigChange(): the timer of the event before is cleared and a new
\* one is set
handleConfigChange(c, t) ==
    [c EXCEPT !.timers = clearTimeout(@, c.debounceTimer) \cup {t + DebounceDelay},
              !.debounceTimer = t + DebounceDelay]

\* the reload attempts that have started and not run to their end
InProgress(c) == {i \in 1..Len(c.attempts) : c.attempts[i].state # "done"}

\* the callback's code after the file has been loaded: validateConfig,
\* normalizePaths, the comparison with currentConfig, emit and assignment
reloaded(c, data) ==
    IF ~data.valid THEN [c EXCEPT !.errors = @ + 1]
    ELSE IF c.currentConfig = normalizePaths(data) THEN c
    ELSE [c EXCEPT !.emitted = Append(@, [old |-> c.currentConfig,
                                           new |-> normalizePaths(data)]),
                   !.currentConfig = normalizePaths(data)]

\* start()
StartWatcher ==
    /\ ~cw.watcher
    /\ ~cw.stopCalled
    /\ cw' = [cw EXCEPT !.watcher = TRUE]
    /\ UNCHANGED <<pathVars, cacheVars, editVars, searchVars, linesVars, toolVars, errVars, limVars>>

\* the config file is written and the watcher's 'change' listener runs
ConfigChange(content) ==
    /\ cw.watcher
    /\ ~cw.closing
    /\ cw.changes < MaxChanges
    /\ cw' = [handleConfigChange(cw, cw.now) EXCEPT
                 !.file = content,
                 !.changes = @ + 1,
                 !.latestValid = IF content.valid THEN content ELSE @,
                 !.burstAttempts = IF cw.lastChange = 0
                                      \/ cw.now - cw.lastChange >= DebounceDelay
                                   THEN 0 ELSE @,
                 !.lastChange = cw.now]
    /\ UNCHANGED <<pathVars, cacheVars, editVars, searchVars, linesVars, toolVars, errVars, limVars>>

\* time passes
WatcherTick ==
    /\ cw.now < MaxWatcherTime
    /\ cw' = [cw EXCEPT !.now = @ + 1]
    /\ UNCHANGED <<pathVars, cacheVars, editVars, searchVars, linesVars, toolVars, errVars, limVars>>

\* a timer that is due fires: its callback starts and calls loadConfigFromFile
TimerFires(due) ==
    /\ due \in cw.timers
    /\ cw.now >= due
    /\ cw' = [cw EXCEPT !.timers = @ \ {due},
                        !.attempts = Append(@, [state |-> "loading",
                                                data |-> InitialFile]),
                        !.burstAttempts = @ + 1,
                        !.lastStart = cw.now,
                        !.overlapped = @ \/ InProgress(cw) # {}]
    /\ UNCHANGED <<pathVars, cacheVars, editVars, searchVars, linesVars, toolVars, errVars, limVars>>

\* fs.readFile of an attempt reads the file
FileRead(i) ==
    /\ i \in 1..Len(cw.attempts)
    /\ cw.attempts[i].state = "loading"
    /\ cw' = [cw EXCEPT !.attempts[i] = [state |-> "read", data |-> cw.file]]
    /\ UNCHANGED <<pathVars, cacheVars, editVars, searchVars, linesVars, toolVars, errVars, limVars>>

\* the callback of an attempt resumes with what was read and runs to its end
ReloadDone(i) ==
    /\ i \in 1..Len(cw.attempts)
    /\ cw.attempts[i].state = "read"
    /\ cw' = [reloaded(cw, cw.attempts[i].data) EXCEPT !.attempts[i].state = "done"]
    /\ UNCHANGED <<pathVars, cacheVars, editVars, searchVars, linesVars, toolVars, errVars, limVars>>

\* stop() is called: it waits for watcher.close() when there is a watcher,
\* and otherwise goes on to the timer at once
StopCalled ==
    /\ ~cw.stopCalled
    /\ cw' = [cw EXCEPT !.stopCalled = TRUE,
                        !.atStop = [emitted |-> Len(cw.emitted),
                                    currentConfig |-> cw.currentConfig],
                        !.closing = cw.watcher,
                        !.timers = IF cw.watcher THEN @
                                   ELSE clearTimeout(@, cw.debounceTimer),
                        !.debounceTimer = IF cw.watcher THEN @ ELSE 0]
    /\ UNCHANGED <<pathVars, cacheVars, editVars, searchVars, linesVars, toolVars, errVars, limVars>>

\* stop() resumes after watcher.close(): the watcher is dropped and the
\* timer cleared
StopResumed ==
    /\ cw.closing
    /\ cw' = [cw EXCEPT !.closing = FALSE,
                        !.watcher = FALSE,
                        !.timers = clearTimeout(@, cw.debounceTimer),
                        !.debounceTimer = 0]
    /\ UNCHANGED <<pathVars, cacheVars, editVars, searchVars, linesVars, toolVars, errVars, limVars>>

WatcherNext ==
    \/ StartWatcher
    \/ \E content \in ConfigFiles : ConfigChange(content)
    \/ WatcherTick
    \/ \E due \in 1..(MaxWatcherTime + DebounceDelay) : TimerFires(due)
    \/ \E i \in 1..MaxChanges : FileRead(i)
    \/ \E i \in 1..MaxChanges : ReloadDone(i)
    \/ StopCalled
    \/ StopResumed

\* C37: a burst of config-file change events in which each event arrives
\* less than the debounce delay after the previous one causes at most one
\* reload attempt, and that attempt starts only once the debounce delay has
\* elapsed since the last event of the burst.
C37_OneReloadPerBurst ==
    /\ cw.burstAttempts <= 1
    /\ cw.burstAttempts = 1 => cw.lastStart >= cw.lastChange + DebounceDelay

\* a burst of two events less than the delay apart was followed by a reload
C37_Witness ==
    /\ cw.changes >= 2
    /\ cw.lastChange = 2
    /\ cw.burstAttempts = 1
    /\ Len(cw.attempts) = 1

\* C38: after ConfigWatcher.stop() has been called, no further 'reload'
\* event is emitted and currentConfig no longer changes, even if a change
\* event was pending in the debounce timer or a reload was in progress when
\* stop was called.
C38_NothingAfterStop ==
    cw.stopCalled
        => /\ Len(cw.emitted) = cw.atStop.emitted
           /\ cw.currentConfig = cw.atStop.currentConfig

\* C39: when reload attempts overlap, then once all attempts have finished
\* getCurrentConfig() equals the normalized content of the most recent
\* valid version of the config file, and the last 'reload' event emitted
\* carries that version.
C39_LatestVersionWins ==
    (/\ cw.overlapped
     /\ ~cw.stopCalled
     /\ InProgress(cw) = {}
     /\ cw.timers = {})
        => /\ cw.currentConfig = normalizePaths(cw.latestValid)
           /\ cw.emitted # <<>>
                 => cw.emitted[Len(cw.emitted)].new = normalizePaths(cw.latestValid)

(***************************************************************************)
(* SPECIFICATIONS, one per component; the other components stand still.    *)
(***************************************************************************)

PathIdle ==
    /\ fs = InitFs
    /\ allowedDirectories = {PD}
    /\ call = NoCall

CacheIdle ==
    /\ fc = NewFileCache([enabled |-> FALSE, ttl |-> 0, maxSize |-> 0])
    /\ files = [q \in Paths |-> [exists |-> TRUE, mtime |-> 1]]
    /\ now = 1
    /\ last = NoLast
    /\ prev = NoLast
    /\ ops = 0
    /\ hist = NoHist
    /\ reads = [q \in Paths |-> NoRead]

EditIdle ==
    /\ doc = <<>>
    /\ editCall = NoEdit

SearchIdle == srch = Idle

LinesIdle ==
    /\ disk = <<>>
    /\ linesCall = NoLines

ToolIdle == tool = NoTool

ErrIdle == err = NoError

LimIdle == LimInit

WatcherIdle == WatcherInit

\* each component starts while the others stay in their idle state
InitPath == PathInit /\ CacheIdle /\ EditIdle /\ SearchIdle /\ LinesIdle /\ ToolIdle /\ ErrIdle /\ LimIdle /\ WatcherIdle

InitCache == CacheInit /\ PathIdle /\ EditIdle /\ SearchIdle /\ LinesIdle /\ ToolIdle /\ ErrIdle /\ LimIdle /\ WatcherIdle

InitEdit == EditInit /\ PathIdle /\ CacheIdle /\ SearchIdle /\ LinesIdle /\ ToolIdle /\ ErrIdle /\ LimIdle /\ WatcherIdle

InitSearch == SearchInit /\ PathIdle /\ CacheIdle /\ EditIdle /\ LinesIdle /\ ToolIdle /\ ErrIdle /\ LimIdle /\ WatcherIdle

InitLines == LinesInit /\ PathIdle /\ CacheIdle /\ EditIdle /\ SearchIdle /\ ToolIdle /\ ErrIdle /\ LimIdle /\ WatcherIdle

SpecPath == InitPath /\ [][PathNext]_vars

SpecCache == InitCache /\ [][CacheNext]_vars

SpecReadThrough == InitCache /\ [][ReadThroughNext]_vars

SpecStatFailure == InitCache /\ [][StatFailureNext]_vars

SpecEdit == InitEdit /\ [][EditNext]_vars

SpecSearch == InitSearch /\ [][SearchNext]_vars

SpecLines == InitLines /\ [][LinesNext]_vars

SpecTools == InitCache /\ [][ToolsNext]_vars

InitErr == ErrInit /\ PathIdle /\ CacheIdle /\ EditIdle /\ SearchIdle /\ LinesIdle /\ ToolIdle /\ LimIdle /\ WatcherIdle

InitLim == LimInit /\ PathIdle /\ CacheIdle /\ EditIdle /\ SearchIdle /\ LinesIdle /\ ToolIdle /\ ErrIdle /\ WatcherIdle

\* the event loop answers every fs call that is awaited; the timeout is
\* under no obligation to fire
SpecSearchFair ==
    InitSearch /\ [][SearchNext]_vars /\ WF_vars(ReaddirDone) /\ WF_vars(ValidateDone)

SpecLim == InitLim /\ [][LimNext]_vars

InitWatcher ==
    WatcherInit /\ PathIdle /\ CacheIdle /\ EditIdle /\ SearchIdle /\ LinesIdle
    /\ ToolIdle /\ ErrIdle /\ LimIdle

SpecWatcher == InitWatcher /\ [][WatcherNext]_vars

SpecErr == InitErr /\ [][ErrNext]_vars

====
